---- MODULE Spec2Model ----
(***************************************************************************)
(* Sam Guard: the evaluation engine (core/gate.ts, core/decision.ts).      *)
(*                                                                         *)
(* Spec    Gate instances built from the same rule list and default        *)
(*         decision are driven with the same calls: every action is one    *)
(*         step of evaluate / evaluateAsync (runRules, the async loop,     *)
(*         log, the return) taken by each gate on the same intent and the  *)
(*         same rule outcomes.  The gates differ in dryRun and in what     *)
(*         their logger does.                                              *)
(* SpecRL  one rateLimit rule closure invoked at arbitrary wall-clock      *)
(*         times.                                                          *)
(* SpecPair  two rateLimit rules created with the same options; one agent  *)
(*         calls both at the same times, the other agents call either.     *)
(* SpecAudit  one AuditLogger (audit/logger.ts) over an adapter whose      *)
(*         write returns, throws, or returns a promise that settles later. *)
(* SpecRetry  SpecRL with windows of a second and more.                    *)
(* SpecStore  an InMemoryAdapter and a FileAdapter (audit/adapters) that   *)
(*         receive the same writes and the same reads.                     *)
(* SpecCrash  SpecStore with appends that a crash cuts short.              *)
(* SpecQuery  the two adapters with default options under any filter.      *)
(* SpecE2E  a gate over built-in rules whose logger is an AuditLogger over *)
(*         an InMemoryAdapter.                                             *)
(* SpecIntent  createIntent (core/intent.ts) on strings of characters.     *)
(* SpecCtor  rateLimit(options) and new Gate(config) on any options, and   *)
(*         the use of what they return.                                    *)
(* SpecEq  two gates of one configuration: one is called with evaluate,    *)
(*         the other with evaluateAsync and no async rules.                *)
(* SpecLive  Spec with async rules whose promise may never settle, and     *)
(*         every other step of a call taken eventually.                    *)
(* SpecPayload  two runs of one policy of built-in rules on intents that   *)
(*         differ in payload and metadata only.                            *)
(* SpecConc  one gate with a rateLimit rule and calls of evaluate and      *)
(*         evaluateAsync that interleave at their awaits.                  *)
(***************************************************************************)
EXTENDS Integers, Sequences, FiniteSets, TLC

VARIABLES
    gate,       \* Gates -> configuration of the Gate instance (readonly fields)
    call,       \* Gates -> the evaluate / evaluateAsync call of that gate
    limiter,    \* the options a rateLimit rule was created with
    windows,    \* the rule's Map of key -> timestamps
    admitted,   \* history: the invocations of the rule that passed through
    lastCall,   \* history: the latest invocation of the rule
    twinWindows, \* the Map of a second rule created with the same options
    observed,   \* the agent that calls both rules
    pairLast,   \* history: the latest call of the observed agent on both rules
    audit,      \* the AuditLogger: its options
    auditCalls, \* the AuditLogger.log calls made so far, in order
    issued,     \* the ids randomUUID() has returned
    mem,        \* the InMemoryAdapter: maxEntries and entries
    file,       \* the FileAdapter: maxSizeBytes, the file at path and at path.1
    storeLog,   \* history: the writes made to the two adapters
    lastRead,   \* history: the latest query / count call on the two adapters
    e2e,        \* a gate whose logger is an AuditLogger over mem, and its calls
    intentCall, \* the latest createIntent call
    ctor,       \* the latest rateLimit(options) / new Gate(config) and its use
    conc,       \* one gate with a rateLimit rule and its concurrent calls
    runs        \* two runs of one policy of built-in rules

gateVars == <<gate, call>>

limiterVars == <<limiter, windows, admitted, lastCall>>

pairVars == <<twinWindows, observed, pairLast>>

auditVars == <<audit, auditCalls, issued>>

storeVars == <<mem, file, storeLog, lastRead, e2e>>

ctorVars == <<intentCall, ctor>>

extVars == <<conc, runs>>

vars == <<gate, call, limiter, windows, admitted, lastCall,
          twinWindows, observed, pairLast, audit, auditCalls, issued,
          mem, file, storeLog, lastRead, e2e, intentCall, ctor,
          conc, runs>>

----------------------------------------------------------------------------
(* Bounds                                                                  *)

MaxRules == 2          \* longest synchronous rule list

MaxAsyncRules == 2     \* longest asyncRules argument

MaxMaxCalls == 2       \* largest maxCalls option of a rateLimit rule

MaxWindowMs == 2       \* largest windowMs option of a rateLimit rule

MaxTime == 3           \* Date.now() ranges over 0..MaxTime

MaxInvocations == 4    \* invocations of one rateLimit rule

MaxLogCalls == 2       \* AuditLogger.log calls

MaxWrites == 3         \* writes to the adapters of SpecStore / SpecCrash

MaxCapacity == 2       \* largest maxEntries of the InMemoryAdapter

MaxSizeBytes == 7      \* largest maxSizeBytes of the FileAdapter

MaxQueryWrites == 2    \* writes to the adapters of SpecQuery

MaxStamp == 2          \* timestamps of the entries of SpecQuery: 0..MaxStamp

MaxPage == 2           \* largest limit and offset of the filters of SpecQuery

MaxLen == 3            \* longest agentId and target handed to createIntent

----------------------------------------------------------------------------
(* core/decision.ts                                                        *)

DecisionTypes == {"allow", "block", "require-approval"}

allow == [type |-> "allow"]

block(reason) == [type |-> "block", reason |-> reason]

requireApproval(reason) == [type |-> "require-approval", reason |-> reason]

\* reason?: string left out by the caller
NoReason == <<>>

\* the value of a variable that holds no Decision (yet)
NoDecision == [type |-> "none"]

\* the outcome "an exception left the gate"
Threw == [type |-> "threw"]

----------------------------------------------------------------------------
(* Inputs                                                                  *)

Gates == {"g1", "g2"}

\* TransactionIntent: the fields the gate reads
Intents ==
    { [agentId |-> "agent-a", tool |-> "exec", target |-> "ls"],
      [agentId |-> "agent-b", tool |-> "http", target |-> "https://example.com"] }

NoIntent == [agentId |-> "", tool |-> "", target |-> ""]

\* What one invocation of a user-supplied Rule does: it returns null, returns
\* a Decision, throws an Error (with a message) or throws a non-Error value.
RuleOutcomes ==
    { [kind |-> "null"],
      [kind |-> "decision", decision |-> allow],
      [kind |-> "decision", decision |-> block(<<"rule">>)],
      [kind |-> "decision", decision |-> requireApproval(NoReason)],
      [kind |-> "throw", isError |-> TRUE, message |-> "boom"],
      [kind |-> "throw", isError |-> FALSE, message |-> ""] }

\* What an AsyncRule does when invoked: it throws before returning a promise,
\* or returns a promise that later settles (AsyncSettlements).
AsyncSettlements == RuleOutcomes

\* config.defaultDecision: left out, or one of the three variants
DefaultConfigs ==
    { NoDecision, allow, block(<<"default">>), requireApproval(<<"default">>) }

----------------------------------------------------------------------------
(* Gate: constructor                                                       *)

\* GateConfig: rules (a list of numRules user-supplied rules),
\* defaultDecision? (NoDecision when left out), dryRun?, logger?
GateConfigs ==
    [ numRules : 0..MaxRules,
      defaultDecision : DefaultConfigs,
      dryRun : BOOLEAN,
      hasLogger : BOOLEAN ]

\* defaultDecisionOf falling back to allow
defaultDecisionOfPermissive(config) ==
    IF config.defaultDecision = NoDecision THEN allow ELSE config.defaultDecision

\* this.defaultDecision = config.defaultDecision ?? requireApproval("No rules matched")
defaultDecisionOf(config) ==
    IF config.defaultDecision = NoDecision
    THEN requireApproval(<<"No rules matched">>)
    ELSE config.defaultDecision

\* new Gate(config); config is kept beside the fields the constructor sets
Gate(config) ==
    [ config |-> config,
      numRules |-> config.numRules,
      defaultDecision |-> defaultDecisionOf(config),
      dryRun |-> config.dryRun,
      hasLogger |-> config.hasLogger ]

IdleCall ==
    [ pc |-> "idle", kind |-> "none", intent |-> NoIntent, asyncN |-> 0,
      i |-> 0, invoked |-> <<>>, asyncInvoked |-> <<>>,
      decision |-> NoDecision, entries |-> <<>>, loggerThrew |-> FALSE,
      result |-> NoDecision ]

\* no rateLimit rule has been created
NoLimiter == [maxCalls |-> 0, windowMs |-> 0, perAgent |-> FALSE]

NoCall == [agentId |-> "", key |-> "", now |-> 0, blocked |-> FALSE,
           retryAfterMs |-> 0, retryAfterS |-> 0, before |-> 0, pruned |-> <<>>,
           admittedBefore |-> <<>>, clockOrdered |-> TRUE]

\* the observed agent has not called the two rules
NoPairCall == [now |-> 0, blocked |-> FALSE, twinBlocked |-> FALSE, calls |-> 0]

\* no rateLimit rule pair is in use
IdlePair ==
    /\ twinWindows = <<>>
    /\ observed = ""
    /\ pairLast = NoPairCall

\* no AuditLogger has been created
NoAudit == [hasTee |-> FALSE, hasOnError |-> FALSE]

IdleAudit ==
    /\ audit = NoAudit
    /\ auditCalls = <<>>
    /\ issued = {}

\* no InMemoryAdapter has been created
NoMem == [maxEntries |-> 0, entries |-> <<>>]

\* no file at a path
NoFile == [exists |-> FALSE, content |-> <<>>]

\* no FileAdapter has been created
NoFileAdapter == [maxSizeBytes |-> 0, current |-> NoFile, rotated |-> NoFile]

\* nothing was written to the adapters
NoStoreLog ==
    [ writes |-> <<>>, cleared |-> FALSE, sinceRotation |-> <<>>,
      rotations |-> <<>>,
      last |-> [n |-> 0, sizeBefore |-> 0, before |-> NoFile,
                clearedAfter |-> FALSE, crashed |-> FALSE] ]

\* no query / count call has been made
NoRead == [kind |-> "none"]

\* no gate with an audit logger has been created
NoE2E == [rules |-> <<>>, defaultDecision |-> NoDecision, dryRun |-> FALSE,
          calls |-> <<>>]

IdleStore ==
    /\ mem = NoMem
    /\ file = NoFileAdapter
    /\ storeLog = NoStoreLog
    /\ lastRead = NoRead
    /\ e2e = NoE2E

\* createIntent has not been called
NoIntentCall == [kind |-> "none"]

\* nothing has been constructed
NoCtor == [kind |-> "none"]

IdleCtor ==
    /\ intentCall = NoIntentCall
    /\ ctor = NoCtor

\* no gate with concurrent calls has been created
NoConc == [kind |-> "none"]

\* no policy has been run
NoRuns == [kind |-> "none"]

IdleExt ==
    /\ conc = NoConc
    /\ runs = NoRuns

\* no rateLimit rule is in use
IdleLimiter ==
    /\ limiter = NoLimiter
    /\ windows = <<>>
    /\ admitted = <<>>
    /\ lastCall = NoCall

\* The gates are built from the same rules and defaultDecision; dryRun and
\* logger are per gate.
Init ==
    /\ \E n \in 0..MaxRules, d \in DefaultConfigs,
          dr \in [Gates -> BOOLEAN], hl \in [Gates -> BOOLEAN] :
         gate = [g \in Gates |->
                    Gate([numRules |-> n, defaultDecision |-> d,
                          dryRun |-> dr[g], hasLogger |-> hl[g]])]
    /\ call = [g \in Gates |-> IdleCall]
    /\ limiter = NoLimiter
    /\ windows = <<>>
    /\ admitted = <<>>
    /\ lastCall = NoCall
    /\ IdlePair
    /\ IdleAudit
    /\ IdleStore
    /\ IdleCtor
    /\ IdleExt

----------------------------------------------------------------------------
(* Gate: runRules                                                          *)

\* the gates whose call is at pc
At(pc) == {g \in Gates : call[g].pc = pc}

\* catch (err): err instanceof Error ? err.message : "Rule error"
RuleErrorReason(o) == IF o.isError THEN o.message ELSE "Rule error"

\* runRulesStep without the try / catch's block: the failing rule is skipped
runRulesStepFailOpen(o) ==
    CASE o.kind = "throw" -> [to |-> "next", decision |-> NoDecision]
      [] o.kind = "decision" -> [to |-> "return", decision |-> o.decision]
      [] o.kind = "null" -> [to |-> "next", decision |-> NoDecision]

\* runRulesStep going on to the next rule after a rule returned allow
runRulesStepPastAllow(o) ==
    CASE o.kind = "throw" ->
           [to |-> "return",
            decision |-> block(<<"Rule threw an error: ", RuleErrorReason(o)>>)]
      [] o.kind = "decision" /\ o.decision.type # "allow" ->
           [to |-> "return", decision |-> o.decision]
      [] OTHER -> [to |-> "next", decision |-> NoDecision]

\* One turn of the loop in runRules on the outcome o of rule(intent):
\* "return" leaves runRules with a decision, "next" goes on to the next rule,
\* "raise" lets the exception leave runRules.
runRulesStep(o) ==
    CASE o.kind = "throw" ->
           [to |-> "return",
            decision |-> block(<<"Rule threw an error: ", RuleErrorReason(o)>>)]
      [] o.kind = "decision" -> [to |-> "return", decision |-> o.decision]
      [] o.kind = "null" -> [to |-> "next", decision |-> NoDecision]

\* SkipsAsyncRules entering the loop over an empty asyncRules
SkipsAsyncRulesOnNonAllow(syncDecision, asyncN) == syncDecision.type # "allow"

\* SkipsAsyncRules letting a synchronous require-approval reach the async rules
SkipsAsyncRulesOnBlock(syncDecision, asyncN) ==
    syncDecision.type = "block" \/ asyncN = 0

\* SkipsAsyncRules looking at the length of asyncRules only
SkipsAsyncRulesWhenNone(syncDecision, asyncN) == asyncN = 0

\* evaluateAsync: if (syncDecision.type !== "allow" || asyncRules.length === 0)
SkipsAsyncRules(syncDecision, asyncN) ==
    syncDecision.type # "allow" \/ asyncN = 0

\* where a call goes when runRules has returned decision d
AfterRunRules(c, d) ==
    IF c.kind = "evaluate" \/ SkipsAsyncRules(d, c.asyncN)
    THEN [c EXCEPT !.decision = d, !.pc = "log"]
    ELSE [c EXCEPT !.decision = d, !.pc = "asyncRules", !.i = 1]

\* evaluate(intent): const decision = this.runRules(intent) is entered
evaluate(intent) ==
    /\ \A g \in Gates : call[g].pc \in {"idle", "done"}
    /\ call' = [g \in Gates |->
                  [IdleCall EXCEPT !.pc = "runRules", !.kind = "evaluate",
                                   !.intent = intent, !.i = 1]]
    /\ UNCHANGED <<gate, limiterVars, pairVars, auditVars, storeVars, ctorVars, extVars>>

\* evaluateAsync(intent, asyncRules), asyncRules of length n: runRules is entered
evaluateAsync(intent, n) ==
    /\ \A g \in Gates : call[g].pc \in {"idle", "done"}
    /\ call' = [g \in Gates |->
                  [IdleCall EXCEPT !.pc = "runRules", !.kind = "evaluateAsync",
                                   !.intent = intent, !.asyncN = n, !.i = 1]]
    /\ UNCHANGED <<gate, limiterVars, pairVars, auditVars, storeVars, ctorVars, extVars>>

\* the call c after its next synchronous rule had outcome o
AfterRule(c, o) ==
    LET s == runRulesStep(o)
        c1 == [c EXCEPT !.invoked = Append(@, [rule |-> c.i, outcome |-> o])]
    IN  CASE s.to = "return" -> AfterRunRules(c1, s.decision)
          [] s.to = "next" -> [c1 EXCEPT !.i = c.i + 1]
          [] s.to = "raise" -> [c1 EXCEPT !.pc = "done", !.result = Threw]

\* for (const rule of this.rules): the next rule is invoked and has outcome o
runRulesInvoke(o) ==
    LET S == {g \in At("runRules") : call[g].i <= gate[g].numRules}
    IN  /\ S # {}
        /\ call' = [g \in Gates |->
                      IF g \in S THEN AfterRule(call[g], o) ELSE call[g]]
        /\ UNCHANGED <<gate, limiterVars, pairVars, auditVars, storeVars, ctorVars, extVars>>

\* the loop of runRules is exhausted: return this.defaultDecision
runRulesDefault ==
    LET S == {g \in At("runRules") : call[g].i > gate[g].numRules}
    IN  /\ S # {}
        /\ call' = [g \in Gates |->
                      IF g \in S
                      THEN AfterRunRules(call[g], gate[g].defaultDecision)
                      ELSE call[g]]
        /\ UNCHANGED <<gate, limiterVars, pairVars, auditVars, storeVars, ctorVars, extVars>>

----------------------------------------------------------------------------
(* Gate: the async rules of evaluateAsync                                  *)

\* the promise an AsyncRule returned has not settled
Pending == [kind |-> "pending"]

\* AsyncErrorReason dropping the message of the error
AsyncErrorReasonGeneric(o) == "Async rule error"

\* catch (err): err instanceof Error ? err.message : "Async rule error"
AsyncErrorReason(o) == IF o.isError THEN o.message ELSE "Async rule error"

\* asyncRulesStep without the try / catch around the await
asyncRulesStepUncaught(o) ==
    CASE o.kind = "throw" -> [to |-> "raise", decision |-> NoDecision]
      [] o.kind = "decision" -> [to |-> "return", decision |-> o.decision]
      [] o.kind = "null" -> [to |-> "next", decision |-> NoDecision]

\* asyncRulesStep going on to the next async rule after one resolved to allow
asyncRulesStepPastAllow(o) ==
    CASE o.kind = "throw" ->
           [to |-> "return",
            decision |-> block(<<"Async rule threw: ", AsyncErrorReason(o)>>)]
      [] o.kind = "decision" /\ o.decision.type # "allow" ->
           [to |-> "return", decision |-> o.decision]
      [] OTHER -> [to |-> "next", decision |-> NoDecision]

\* One turn of the loop over asyncRules on the outcome o of await rule(intent)
asyncRulesStep(o) ==
    CASE o.kind = "throw" ->
           [to |-> "return",
            decision |-> block(<<"Async rule threw: ", AsyncErrorReason(o)>>)]
      [] o.kind = "decision" -> [to |-> "return", decision |-> o.decision]
      [] o.kind = "null" -> [to |-> "next", decision |-> NoDecision]

\* AfterAsyncRule stepping over the async rule that follows a pass-through
AfterAsyncRuleSkipping(c, o) ==
    LET s == asyncRulesStep(o)
    IN  CASE s.to = "return" -> [c EXCEPT !.decision = s.decision, !.pc = "log"]
          [] s.to = "next" -> [c EXCEPT !.i = c.i + 2, !.pc = "asyncRules"]
          [] s.to = "raise" -> [c EXCEPT !.pc = "done", !.result = Threw]

\* the call c after await rule(intent) has produced outcome o
AfterAsyncRule(c, o) ==
    LET s == asyncRulesStep(o)
    IN  CASE s.to = "return" -> [c EXCEPT !.decision = s.decision, !.pc = "log"]
          [] s.to = "next" -> [c EXCEPT !.i = c.i + 1, !.pc = "asyncRules"]
          [] s.to = "raise" -> [c EXCEPT !.pc = "done", !.result = Threw]

\* the gates whose call is about to invoke its next async rule
AtAsyncRule == {g \in At("asyncRules") : call[g].i <= call[g].asyncN}

\* rule(intent) throws before it returns a promise: the catch runs at once
asyncRuleThrows(o) ==
    /\ AtAsyncRule # {}
    /\ o.kind = "throw"
    /\ call' = [g \in Gates |->
                  IF g \in AtAsyncRule
                  THEN AfterAsyncRule(
                          [call[g] EXCEPT !.asyncInvoked =
                              Append(@, [rule |-> call[g].i, outcome |-> o])], o)
                  ELSE call[g]]
    /\ UNCHANGED <<gate, limiterVars, pairVars, auditVars, storeVars, ctorVars, extVars>>

\* asyncRuleInvoke going on to the next async rule without awaiting this one
asyncRuleInvokeFanOut ==
    /\ AtAsyncRule # {}
    /\ call' = [g \in Gates |->
                  IF g \in AtAsyncRule
                  THEN [call[g] EXCEPT
                          !.asyncInvoked =
                              Append(@, [rule |-> call[g].i, outcome |-> Pending]),
                          !.i = @ + 1,
                          !.pc = IF call[g].i < call[g].asyncN
                                 THEN "asyncRules" ELSE "await"]
                  ELSE call[g]]
    /\ UNCHANGED <<gate, limiterVars, pairVars, auditVars, storeVars, ctorVars, extVars>>

\* rule(intent) returns a promise: the call suspends at the await
asyncRuleInvoke ==
    /\ AtAsyncRule # {}
    /\ call' = [g \in Gates |->
                  IF g \in AtAsyncRule
                  THEN [call[g] EXCEPT
                          !.asyncInvoked =
                              Append(@, [rule |-> call[g].i, outcome |-> Pending]),
                          !.pc = "await"]
                  ELSE call[g]]
    /\ UNCHANGED <<gate, limiterVars, pairVars, auditVars, storeVars, ctorVars, extVars>>

\* the awaited promise settles (resolves with null or a Decision, or rejects)
\* and the call resumes
asyncRuleSettle(o) ==
    /\ At("await") # {}
    /\ call' = [g \in Gates |->
                  IF g \in At("await")
                  THEN AfterAsyncRule(
                          [call[g] EXCEPT
                              !.asyncInvoked[Len(call[g].asyncInvoked)].outcome = o], o)
                  ELSE call[g]]
    /\ UNCHANGED <<gate, limiterVars, pairVars, auditVars, storeVars, ctorVars, extVars>>

\* asyncRulesDefault keeping the synchronous allow
asyncRulesDefaultKeepsSync ==
    LET S == {g \in At("asyncRules") : call[g].i > call[g].asyncN}
    IN  /\ S # {}
        /\ call' = [g \in Gates |->
                      IF g \in S THEN [call[g] EXCEPT !.pc = "log"] ELSE call[g]]
        /\ UNCHANGED <<gate, limiterVars, pairVars, auditVars, storeVars, ctorVars, extVars>>

\* the loop over asyncRules is exhausted: this.defaultDecision
asyncRulesDefault ==
    LET S == {g \in At("asyncRules") : call[g].i > call[g].asyncN}
    IN  /\ S # {}
        /\ call' = [g \in Gates |->
                      IF g \in S
                      THEN [call[g] EXCEPT !.decision = gate[g].defaultDecision,
                                           !.pc = "log"]
                      ELSE call[g]]
        /\ UNCHANGED <<gate, limiterVars, pairVars, auditVars, storeVars, ctorVars, extVars>>

----------------------------------------------------------------------------
(* Gate: log and the return                                                *)

\* decisionToLevel without the require-approval branch
decisionToLevelNoWarn(decision) ==
    IF decision.type = "block" THEN "error" ELSE "info"

decisionToLevel(decision) ==
    IF decision.type = "block" THEN "error"
    ELSE IF decision.type = "require-approval" THEN "warn"
    ELSE "info"

\* LogEntry built from the decision that is returned
LogEntryOfReturned(gt, intent, decision) ==
    [ level |-> decisionToLevel(decision),
      agentId |-> intent.agentId,
      tool |-> intent.tool,
      target |-> intent.target,
      decision |-> IF gt.dryRun THEN allow ELSE decision,
      dryRun |-> gt.dryRun ]

\* the LogEntry handed to the logger (timestamp and durationMs left out)
LogEntry(gt, intent, decision) ==
    [ level |-> decisionToLevel(decision),
      agentId |-> intent.agentId,
      tool |-> intent.tool,
      target |-> intent.target,
      decision |-> decision,
      dryRun |-> gt.dryRun ]

\* LoggerInvocations of a log() that is silent in dry-run mode
LoggerInvocationsEnforcingOnly(gt) == IF gt.hasLogger /\ ~gt.dryRun THEN 1 ELSE 0

\* how often log() invokes the logger
LoggerInvocations(gt) == IF gt.hasLogger THEN 1 ELSE 0

\* LogRaises of a log() without the try / catch
LogRaisesUncaught(threw) == threw

\* try { this.logger(...) } catch { }: does a logger exception leave log()?
LogRaises(threw) == FALSE

\* Returned ignoring dryRun
ReturnedEnforced(gt, decision) == decision

\* return this.dryRun ? Decisions.allow() : decision
Returned(gt, decision) == IF gt.dryRun THEN allow ELSE decision

RECURSIVE Repeat(_, _)
Repeat(x, n) == IF n = 0 THEN <<>> ELSE <<x>> \o Repeat(x, n - 1)

\* the call c of gate gt after this.log(intent, decision, ...), in which the
\* logger (if any) returned or threw
AfterLog(gt, c, threw) ==
    LET n == LoggerInvocations(gt)
        raised == n > 0 /\ threw /\ LogRaises(threw)
    IN  [c EXCEPT !.entries = @ \o Repeat(LogEntry(gt, c.intent, c.decision), n),
                  !.loggerThrew = (n > 0 /\ threw),
                  !.pc = IF raised THEN "done" ELSE "return",
                  !.result = IF raised THEN Threw ELSE @]

\* this.log(intent, decision, Date.now() - start); threw[g]: the logger of g throws
log(threw) ==
    /\ At("log") # {}
    /\ call' = [g \in Gates |->
                  IF g \in At("log")
                  THEN AfterLog(gate[g], call[g], threw[g])
                  ELSE call[g]]
    /\ UNCHANGED <<gate, limiterVars, pairVars, auditVars, storeVars, ctorVars, extVars>>

\* the return statement that follows this.log(...)
return ==
    /\ At("return") # {}
    /\ call' = [g \in Gates |->
                  IF g \in At("return")
                  THEN [call[g] EXCEPT
                          !.result = Returned(gate[g], call[g].decision),
                          !.pc = "done"]
                  ELSE call[g]]
    /\ UNCHANGED <<gate, limiterVars, pairVars, auditVars, storeVars, ctorVars, extVars>>

----------------------------------------------------------------------------

Next ==
    \/ \E intent \in Intents : evaluate(intent)
    \/ \E intent \in Intents, n \in 0..MaxAsyncRules : evaluateAsync(intent, n)
    \/ \E o \in RuleOutcomes : runRulesInvoke(o)
    \/ runRulesDefault
    \/ \E o \in RuleOutcomes : asyncRuleThrows(o)
    \/ asyncRuleInvoke
    \/ \E o \in AsyncSettlements : asyncRuleSettle(o)
    \/ asyncRulesDefault
    \/ \E threw \in [Gates -> BOOLEAN] : log(threw)
    \/ return

Spec == Init /\ [][Next]_vars

TypeOK ==
    \A g \in Gates : call[g].pc \in
          {"idle", "runRules", "asyncRules", "await", "log", "return", "done"}

----------------------------------------------------------------------------
(* evaluateAsync with async rules that may never settle                    *)

\* the promise an AsyncRule returned never settles
Never == [kind |-> "never"]

\* the gates whose call waits for a promise that never settles
Stalled == At("stalled")

\* asyncRuleHangs going on to the next async rule, the promise left behind
asyncRuleHangsAndGoesOn ==
    /\ AtAsyncRule # {}
    /\ call' = [g \in Gates |->
                  IF g \in AtAsyncRule
                  THEN [call[g] EXCEPT
                          !.asyncInvoked =
                              Append(@, [rule |-> call[g].i, outcome |-> Never]),
                          !.i = @ + 1]
                  ELSE call[g]]
    /\ UNCHANGED <<gate, limiterVars, pairVars, auditVars, storeVars, ctorVars, extVars>>

\* decision = await rule(intent) on a promise that never settles: the call
\* stays suspended at the await
asyncRuleHangs ==
    /\ AtAsyncRule # {}
    /\ call' = [g \in Gates |->
                  IF g \in AtAsyncRule
                  THEN [call[g] EXCEPT
                          !.asyncInvoked =
                              Append(@, [rule |-> call[g].i, outcome |-> Never]),
                          !.pc = "stalled"]
                  ELSE call[g]]
    /\ UNCHANGED <<gate, limiterVars, pairVars, auditVars, storeVars, ctorVars, extVars>>

NextLive ==
    \/ Next
    \/ asyncRuleHangs

\* Synchronous code runs to its next await or return; a promise that is not
\* one of those that never settle does settle, and the call is then resumed.
Fairness ==
    /\ WF_vars(\E o \in RuleOutcomes : runRulesInvoke(o))
    /\ WF_vars(runRulesDefault)
    /\ WF_vars((\E o \in RuleOutcomes : asyncRuleThrows(o))
                    \/ asyncRuleInvoke \/ asyncRuleHangs)
    /\ WF_vars(\E o \in AsyncSettlements : asyncRuleSettle(o))
    /\ WF_vars(asyncRulesDefault)
    /\ WF_vars(\E threw \in [Gates -> BOOLEAN] : log(threw))
    /\ WF_vars(return)

SpecLive == Init /\ [][NextLive]_vars /\ Fairness

----------------------------------------------------------------------------
(* evaluate beside evaluateAsync                                           *)

\* the gate whose evaluate is called, and the one whose evaluateAsync is
SyncGate == "g1"

AsyncGate == "g2"

\* two gates built from one config
InitEq ==
    /\ \E config \in GateConfigs : gate = [g \in Gates |-> Gate(config)]
    /\ call = [g \in Gates |-> IdleCall]
    /\ IdleLimiter
    /\ IdlePair
    /\ IdleAudit
    /\ IdleStore
    /\ IdleCtor
    /\ IdleExt

\* evaluate(intent) on one gate and evaluateAsync(intent, asyncRules), with
\* asyncRules of length n, on the other: both enter runRules
evaluateBoth(intent, n) ==
    /\ \A g \in Gates : call[g].pc \in {"idle", "done"}
    /\ call' = [g \in Gates |->
                  IF g = SyncGate
                  THEN [IdleCall EXCEPT !.pc = "runRules", !.kind = "evaluate",
                                        !.intent = intent, !.i = 1]
                  ELSE [IdleCall EXCEPT !.pc = "runRules", !.kind = "evaluateAsync",
                                        !.intent = intent, !.asyncN = n, !.i = 1]]
    /\ UNCHANGED <<gate, limiterVars, pairVars, auditVars, storeVars, ctorVars, extVars>>

NextEq ==
    \/ \E intent \in Intents, n \in 0..MaxAsyncRules : evaluateBoth(intent, n)
    \/ \E o \in RuleOutcomes : runRulesInvoke(o)
    \/ runRulesDefault
    \/ \E o \in RuleOutcomes : asyncRuleThrows(o)
    \/ asyncRuleInvoke
    \/ \E o \in AsyncSettlements : asyncRuleSettle(o)
    \/ asyncRulesDefault
    \/ \E threw \in [Gates -> BOOLEAN] : log(threw)
    \/ return

SpecEq == InitEq /\ [][NextEq]_vars

----------------------------------------------------------------------------
(* rateLimit                                                               *)

Agents == {i.agentId : i \in Intents}

GlobalKey == "__global__"

\* KeyOf using the global key whatever perAgent is
KeyOfShared(opts, agentId) == GlobalKey

\* const key = perAgent ? intent.agentId : "__global__"
KeyOf(opts, agentId) == IF opts.perAgent THEN agentId ELSE GlobalKey

\* InWindow keeping a timestamp that is exactly windowMs old
InWindowInclusive(t, now, windowMs) == now - t <= windowMs

\* the predicate of the filter: (t) => now - t < windowMs
InWindow(t, now, windowMs) == now - t < windowMs

\* Pruned keeping every stored timestamp
PrunedNothing(w, key, now, windowMs) == IF key \in DOMAIN w THEN w[key] ELSE <<>>

\* (windows.get(key) ?? []).filter((t) => now - t < windowMs)
Pruned(w, key, now, windowMs) ==
    LET Live(t) == InWindow(t, now, windowMs)
    IN  SelectSeq(IF key \in DOMAIN w THEN w[key] ELSE <<>>, Live)

\* Exceeded admitting one call more than maxCalls
ExceededStrict(timestamps, maxCalls) == Len(timestamps) > maxCalls

\* if (timestamps.length >= maxCalls)
Exceeded(timestamps, maxCalls) == Len(timestamps) >= maxCalls

\* MapSet forgetting every other key
MapSetOnly(w, key, timestamps) == [k \in {key} |-> timestamps]

\* windows.set(key, timestamps)
MapSet(w, key, timestamps) ==
    [k \in DOMAIN w \cup {key} |-> IF k = key THEN timestamps ELSE w[k]]

\* Persisted recording the call whether or not it was blocked
PersistedAlways(w, key, timestamps, now, blocked) ==
    MapSet(w, key, Append(timestamps, now))

\* a blocked call returns before the Map is touched; otherwise
\* timestamps.push(now); windows.set(key, timestamps)
Persisted(w, key, timestamps, now, blocked) ==
    IF blocked THEN w ELSE MapSet(w, key, Append(timestamps, now))

\* rateLimit(options): maxCalls > 0 and windowMs > 0, the Map starts empty
InitRL ==
    /\ limiter \in [maxCalls : 1..MaxMaxCalls, windowMs : 1..MaxWindowMs,
                    perAgent : BOOLEAN]
    /\ windows = <<>>
    /\ admitted = <<>>
    /\ lastCall = NoCall
    /\ gate = [g \in Gates |->
                 Gate([numRules |-> 0, defaultDecision |-> NoDecision,
                       dryRun |-> FALSE, hasLogger |-> FALSE])]
    /\ call = [g \in Gates |-> IdleCall]
    /\ IdlePair
    /\ IdleAudit
    /\ IdleStore
    /\ IdleCtor
    /\ IdleExt

\* MathCeil rounding down
MathFloor(n, d) == n \div d

\* Math.ceil(n / d) for d > 0
MathCeil(n, d) == IF n % d = 0 THEN n \div d ELSE (n \div d) + 1

\* the rule closure is invoked with an intent of agentId while Date.now() = now
rateLimitRule(agentId, now) ==
    LET key == KeyOf(limiter, agentId)
        timestamps == Pruned(windows, key, now, limiter.windowMs)
        blocked == Exceeded(timestamps, limiter.maxCalls)
    IN  /\ limiter # NoLimiter
        /\ lastCall.before + 1 <= MaxInvocations
        /\ windows' = Persisted(windows, key, timestamps, now, blocked)
        /\ admitted' = IF blocked THEN admitted
                       ELSE Append(admitted, [agentId |-> agentId, key |-> key, t |-> now])
        /\ lastCall' =
             [agentId |-> agentId, key |-> key, now |-> now, blocked |-> blocked,
              retryAfterMs |-> IF blocked
                               THEN limiter.windowMs - (now - timestamps[1])
                               ELSE 0,
              retryAfterS |-> IF blocked
                              THEN MathCeil(limiter.windowMs - (now - timestamps[1]),
                                            1000)
                              ELSE 0,
              before |-> lastCall.before + 1,
              pruned |-> timestamps,
              admittedBefore |-> admitted,
              clockOrdered |-> lastCall.clockOrdered /\ now >= lastCall.now]
        /\ UNCHANGED <<limiter, gateVars, pairVars, auditVars, storeVars, ctorVars, extVars>>

NextRL == \E a \in Agents, now \in 0..MaxTime : rateLimitRule(a, now)

SpecRL == InitRL /\ [][NextRL]_vars

\* windowMs options of a second and more
RetryWindows == {1000, 1001, 2001}

\* the values of Date.now() at the calls of SpecRetry
RetryTimes == {0, 1, 1000, 1001, 2001}

\* rateLimit(options) with a window of seconds
InitRetry ==
    /\ limiter \in [maxCalls : 1..MaxMaxCalls, windowMs : RetryWindows,
                    perAgent : BOOLEAN]
    /\ windows = <<>>
    /\ admitted = <<>>
    /\ lastCall = NoCall
    /\ gate = [g \in Gates |->
                 Gate([numRules |-> 0, defaultDecision |-> NoDecision,
                       dryRun |-> FALSE, hasLogger |-> FALSE])]
    /\ call = [g \in Gates |-> IdleCall]
    /\ IdlePair
    /\ IdleAudit
    /\ IdleStore
    /\ IdleCtor
    /\ IdleExt

NextRetry == \E a \in Agents, now \in RetryTimes : rateLimitRule(a, now)

SpecRetry == InitRetry /\ [][NextRetry]_vars

----------------------------------------------------------------------------
(* rateLimit: two rules with the same options                              *)

\* the gate of SpecRL / SpecPair / SpecAudit: built, never called
UnusedGates ==
    /\ gate = [g \in Gates |->
                 Gate([numRules |-> 0, defaultDecision |-> NoDecision,
                       dryRun |-> FALSE, hasLogger |-> FALSE])]
    /\ call = [g \in Gates |-> IdleCall]

\* rateLimitApply never recording a call
rateLimitApplyForgetful(opts, w, agentId, now) ==
    [ blocked |-> Exceeded(Pruned(w, KeyOf(opts, agentId), now, opts.windowMs),
                           opts.maxCalls),
      windows |-> w ]

\* The rule closure as a function: the verdict of a rule with options opts
\* and Map w on an intent of agentId at Date.now() = now, and the Map after.
rateLimitApply(opts, w, agentId, now) ==
    LET key == KeyOf(opts, agentId)
        timestamps == Pruned(w, key, now, opts.windowMs)
        blocked == Exceeded(timestamps, opts.maxCalls)
    IN  [ blocked |-> blocked,
          windows |-> Persisted(w, key, timestamps, now, blocked) ]

\* windows.get(key) ?? []
StoredFor(w, key) == IF key \in DOMAIN w THEN w[key] ELSE <<>>

\* rateLimit(options) twice; one agent is the one observed
InitPair ==
    /\ limiter \in [maxCalls : 1..MaxMaxCalls, windowMs : 1..MaxWindowMs,
                    perAgent : BOOLEAN]
    /\ windows = <<>>
    /\ twinWindows = <<>>
    /\ observed \in Agents
    /\ pairLast = NoPairCall
    /\ admitted = <<>>
    /\ lastCall = NoCall
    /\ UnusedGates
    /\ IdleAudit
    /\ IdleStore
    /\ IdleCtor
    /\ IdleExt

\* calls made to the two rules so far (the observed agent's count once)
PairCalls == pairLast.calls + lastCall.before

\* the observed agent invokes both rules while Date.now() = now
observedCall(now) ==
    LET r1 == rateLimitApply(limiter, windows, observed, now)
        r2 == rateLimitApply(limiter, twinWindows, observed, now)
    IN  /\ PairCalls < MaxInvocations
        /\ windows' = r1.windows
        /\ twinWindows' = r2.windows
        /\ pairLast' = [now |-> now, blocked |-> r1.blocked,
                        twinBlocked |-> r2.blocked, calls |-> pairLast.calls + 1]
        /\ UNCHANGED <<limiter, observed, admitted, lastCall, gateVars, auditVars, storeVars, ctorVars, extVars>>

\* another agent invokes the first rule (twin = FALSE) or the second
otherCall(twin, agentId, now) ==
    LET r == rateLimitApply(limiter, IF twin THEN twinWindows ELSE windows,
                            agentId, now)
    IN  /\ PairCalls < MaxInvocations
        /\ agentId # observed
        /\ windows' = IF twin THEN windows ELSE r.windows
        /\ twinWindows' = IF twin THEN r.windows ELSE twinWindows
        /\ lastCall' = [NoCall EXCEPT !.agentId = agentId, !.now = now,
                                      !.blocked = r.blocked,
                                      !.before = lastCall.before + 1]
        /\ UNCHANGED <<limiter, observed, pairLast, admitted, gateVars, auditVars, storeVars, ctorVars, extVars>>

NextPair ==
    \/ \E now \in 0..MaxTime : observedCall(now)
    \/ \E twin \in BOOLEAN, a \in Agents, now \in 0..MaxTime : otherCall(twin, a, now)

SpecPair == InitPair /\ [][NextPair]_vars

----------------------------------------------------------------------------
(* AuditLogger (audit/logger.ts)                                           *)

\* the LogEntry values handed to AuditLogger.log
AuditEntries == {LogEntry([dryRun |-> FALSE], i, allow) : i \in Intents}

\* values an adapter's write() throws or rejects with: an Error, or a
\* value that is not an Error (message: its String())
WriteErrors ==
    { [isError |-> TRUE, message |-> "disk full"],
      [isError |-> FALSE, message |-> "EIO"] }

\* adapter.write(stored): returns undefined, throws, or returns a Promise
WriteOutcomes ==
    {[kind |-> "void"], [kind |-> "promise"]}
        \cup {[kind |-> "throw", err |-> e] : e \in WriteErrors}

\* how the Promise write() returned settles
WriteSettlements ==
    {[kind |-> "resolve"]} \cup {[kind |-> "reject", err |-> e] : e \in WriteErrors}

\* the ids randomUUID() can return
Uuids == 1..MaxLogCalls

\* randomUUID(): an id that was not returned before
randomUUID(used) == Uuids \ used

\* err instanceof Error ? err : new Error(String(err))
AsError(err) ==
    IF err.isError THEN err ELSE [isError |-> TRUE, message |-> err.message]

\* Stored with one id generated once for every entry
StoredSharedId(id, entry) == entry @@ [id |-> 1]

\* const stored = { id: randomUUID(), ...entry }: the fields of entry come
\* after id and win over it
Stored(id, entry) == entry @@ [id |-> id]

NoStored == [id |-> 0]

NoError == [isError |-> FALSE, message |-> ""]

\* an AuditLogger.log call that has just been entered
NewLogCall(entry) ==
    [ pc |-> "tee", entry |-> entry, teeSeen |-> <<>>, teeThrew |-> FALSE,
      stored |-> NoStored, written |-> <<>>, thrown |-> NoError,
      promise |-> "none", onErrorSeen |-> <<>>, trace |-> <<>>,
      result |-> "running", unhandled |-> FALSE ]

\* new AuditLogger(adapter, options): tee and onError are optional
InitAudit ==
    /\ audit \in [hasTee : BOOLEAN, hasOnError : BOOLEAN]
    /\ auditCalls = <<>>
    /\ issued = {}
    /\ limiter = NoLimiter
    /\ windows = <<>>
    /\ admitted = <<>>
    /\ lastCall = NoCall
    /\ IdlePair
    /\ UnusedGates
    /\ IdleStore
    /\ IdleCtor
    /\ IdleExt

\* the AuditLogger.log call that is executing, if any, is the latest one
Current == auditCalls[Len(auditCalls)]

\* no AuditLogger.log call is executing
AuditIdle == IF auditCalls = <<>> THEN TRUE ELSE Current.pc = "done"

SetCurrent(c) == [auditCalls EXCEPT ![Len(auditCalls)] = c]

\* log = (entry) => { ... is entered
auditLog(entry) ==
    /\ AuditIdle
    /\ Len(auditCalls) < MaxLogCalls
    /\ auditCalls' = Append(auditCalls, NewLogCall(entry))
    /\ UNCHANGED <<audit, issued, gateVars, limiterVars, pairVars, storeVars, ctorVars, extVars>>

\* try { this.tee(entry) } catch { }: does a tee exception leave log()?
TeeRaises(threw) == FALSE

\* if (this.tee) { try { this.tee(entry) } catch { } }
auditTee(threw) ==
    /\ auditCalls # <<>>
    /\ Current.pc = "tee"
    /\ LET raised == audit.hasTee /\ threw /\ TeeRaises(threw)
       IN  auditCalls' = SetCurrent(
             IF audit.hasTee
             THEN [Current EXCEPT !.teeSeen = Append(@, Current.entry),
                                  !.teeThrew = threw,
                                  !.trace = Append(@, "tee"),
                                  !.pc = IF raised THEN "done" ELSE "store",
                                  !.result = IF raised THEN "threw" ELSE @]
             ELSE [Current EXCEPT !.pc = "store"])
    /\ UNCHANGED <<audit, issued, gateVars, limiterVars, pairVars, storeVars, ctorVars, extVars>>

\* const stored: StoredLogEntry = { id: randomUUID(), ...entry }
auditStore(id) ==
    /\ auditCalls # <<>>
    /\ Current.pc = "store"
    /\ id \in randomUUID(issued)
    /\ issued' = issued \cup {id}
    /\ auditCalls' = SetCurrent([Current EXCEPT !.stored = Stored(id, Current.entry),
                                                !.pc = "write"])
    /\ UNCHANGED <<audit, gateVars, limiterVars, pairVars, storeVars, ctorVars, extVars>>

\* try { const result = this.adapter.write(stored);
\*       if (result instanceof Promise) result.catch(...) } catch (err) { ... }
auditWrite(o) ==
    /\ auditCalls # <<>>
    /\ Current.pc = "write"
    /\ auditCalls' = SetCurrent(
          LET c == [Current EXCEPT !.written = Append(@, Current.stored),
                                   !.trace = Append(@, "write")]
          IN  CASE o.kind = "void" ->
                     [c EXCEPT !.pc = "done", !.result = "returned"]
                [] o.kind = "promise" ->
                     [c EXCEPT !.promise = "pending", !.pc = "done",
                               !.result = "returned"]
                [] o.kind = "throw" ->
                     [c EXCEPT !.thrown = o.err, !.pc = "catch"])
    /\ UNCHANGED <<audit, issued, gateVars, limiterVars, pairVars, storeVars, ctorVars, extVars>>

\* this.onError(err instanceof Error ? err : new Error(String(err))) on the
\* call c; onError is the option, or () => { } which does nothing
OnError(c, err) ==
    IF audit.hasOnError
    THEN [c EXCEPT !.onErrorSeen = Append(@, AsError(err)),
                   !.trace = Append(@, "onError")]
    ELSE c

\* catch (err) { this.onError(...) }: onError returns or throws
auditCatch(threw) ==
    /\ auditCalls # <<>>
    /\ Current.pc = "catch"
    /\ LET raised == audit.hasOnError /\ threw
       IN  auditCalls' = SetCurrent(
             [OnError(Current, Current.thrown) EXCEPT
                 !.pc = "done",
                 !.result = IF raised THEN "threw" ELSE "returned"])
    /\ UNCHANGED <<audit, issued, gateVars, limiterVars, pairVars, storeVars, ctorVars, extVars>>

\* the Promise that write() returned in call k settles while no log call is
\* executing; on rejection the handler given to result.catch runs, and an
\* exception of onError there is an unhandled rejection
auditSettle(k, o, threw) ==
    /\ AuditIdle
    /\ k \in 1..Len(auditCalls)
    /\ auditCalls[k].promise = "pending"
    /\ auditCalls' = [auditCalls EXCEPT ![k] =
          IF o.kind = "resolve"
          THEN [@ EXCEPT !.promise = "resolved"]
          ELSE [OnError(@, o.err) EXCEPT
                   !.promise = "rejected", !.thrown = o.err,
                   !.unhandled = audit.hasOnError /\ threw]]
    /\ UNCHANGED <<audit, issued, gateVars, limiterVars, pairVars, storeVars, ctorVars, extVars>>

NextAudit ==
    \/ \E entry \in AuditEntries : auditLog(entry)
    \/ \E threw \in BOOLEAN : auditTee(threw)
    \/ \E id \in Uuids : auditStore(id)
    \/ \E o \in WriteOutcomes : auditWrite(o)
    \/ \E threw \in BOOLEAN : auditCatch(threw)
    \/ \E k \in 1..MaxLogCalls, o \in WriteSettlements, threw \in BOOLEAN :
          auditSettle(k, o, threw)

SpecAudit == InitAudit /\ [][NextAudit]_vars

----------------------------------------------------------------------------
(* Storage adapters (audit/adapters/memory.ts, audit/adapters/file.ts)     *)

\* maxEntries ?? 10_000
DefaultMaxEntries == 10000

\* maxSizeBytes ?? 50 * 1024 * 1024
DefaultMaxSizeBytes == 52428800

\* filter?.limit ?? 100
DefaultLimit == 100

\* filter?.offset ?? 0
DefaultOffset == 0

\* a StoredLogEntry as the adapters read it: id and the filtered fields
StoredLogEntry(id, intent, timestamp) ==
    [ id |-> id, timestamp |-> timestamp, agentId |-> intent.agentId,
      tool |-> intent.tool,
      decision |-> IF intent.tool = "exec" THEN block("denied") ELSE allow ]

\* the intents whose entries are written to the adapters
StoredIntents == [agentId : Agents, tool : {i.tool : i \in Intents}, target : {"t"}]

\* this.entries.splice(0, excess) taking the newest entries instead
EvictNewest(entries, excess) ==
    IF excess < Len(entries) THEN SubSeq(entries, 1, Len(entries) - excess) ELSE <<>>

\* this.entries.splice(0, excess): the oldest entries go
Evict(entries, excess) ==
    IF excess < Len(entries) THEN SubSeq(entries, excess + 1, Len(entries)) ELSE <<>>

\* InMemoryAdapter.write with the capacity test off by one
InMemoryWriteEarly(m, entry) ==
    LET pushed == Append(m.entries, entry)
    IN  [m EXCEPT !.entries =
            IF Len(pushed) >= m.maxEntries
            THEN Evict(pushed, Len(pushed) - m.maxEntries + 1)
            ELSE pushed]

\* InMemoryAdapter.write(entry)
InMemoryWrite(m, entry) ==
    LET pushed == Append(m.entries, entry)
    IN  [m EXCEPT !.entries =
            IF Len(pushed) > m.maxEntries
            THEN Evict(pushed, Len(pushed) - m.maxEntries)
            ELSE pushed]

\* InMemoryAdapter.clear()
InMemoryClear(m) == [m EXCEPT !.entries = <<>>]

\* the length of JSON.stringify(entry): a block decision carries a reason
JsonBytes(entry) == IF entry.decision.type = "allow" THEN 2 ELSE 3

\* the first bytes of JSON.stringify(entry); all of them when bytes = JsonBytes
JsonPrefix(entry, bytes) == [kind |-> "json", entry |-> entry, bytes |-> bytes]

\* JSON.stringify(entry)
JsonStringify(entry) == JsonPrefix(entry, JsonBytes(entry))

Newline == [kind |-> "nl"]

RECURSIVE Size(_)
\* statSync(path).size of a file with this content
Size(content) ==
    IF content = <<>> THEN 0
    ELSE (IF Head(content).kind = "nl" THEN 1 ELSE Head(content).bytes)
         + Size(Tail(content))

\* NeedsRotation of an adapter that never rotates
NeedsRotationNever(size, maxSizeBytes) == FALSE

\* if (size >= this.maxSizeBytes)
NeedsRotation(size, maxSizeBytes) == size >= maxSizeBytes

\* rotateIfNeeded adding the current file to what path + ".1" holds
rotateIfNeededKeeping(f) ==
    IF f.current.exists /\ NeedsRotation(Size(f.current.content), f.maxSizeBytes)
    THEN [f EXCEPT !.rotated = [exists |-> TRUE,
                                content |-> f.rotated.content \o f.current.content],
                   !.current = NoFile]
    ELSE f

\* FileAdapter.rotateIfNeeded(): renameSync(path, path + ".1"); statSync
\* throws when there is no file
rotateIfNeeded(f) ==
    IF f.current.exists /\ NeedsRotation(Size(f.current.content), f.maxSizeBytes)
    THEN [f EXCEPT !.rotated = f.current, !.current = NoFile]
    ELSE f

\* appendFileSync(path, data): creates the file when there is none
appendFileSync(fl, data) == [exists |-> TRUE, content |-> fl.content \o data]

\* FileAdapter.write(entry)
FileWrite(f, entry) ==
    LET r == rotateIfNeeded(f)
    IN  [r EXCEPT !.current =
            appendFileSync(r.current, <<JsonStringify(entry), Newline>>)]

RECURSIVE Split(_, _)
\* raw.split("\n"): the lines of content; line is the one being collected
Split(content, line) ==
    IF content = <<>> THEN <<line>>
    ELSE IF Head(content).kind = "nl"
         THEN <<line>> \o Split(Tail(content), <<>>)
         ELSE Split(Tail(content), Append(line, Head(content)))

\* JSON.parse(line) returns: the line is one whole JSON text
Parses(line) == Len(line) = 1 /\ line[1].bytes = JsonBytes(line[1].entry)

RECURSIVE ParseLines(_)
\* the loop of readAll: empty lines and malformed lines are skipped
ParseLines(lines) ==
    IF lines = <<>> THEN <<>>
    ELSE (IF Head(lines) # <<>> /\ Parses(Head(lines))
          THEN <<Head(lines)[1].entry>> ELSE <<>>)
         \o ParseLines(Tail(lines))

\* FileAdapter.readAll(): ENOENT gives []
readAll(f) ==
    IF f.current.exists THEN ParseLines(Split(f.current.content, <<>>)) ELSE <<>>

\* the filter argument left out
NoFilter == <<>>

\* a field of the filter is given
Has(filter, field) == field \in DOMAIN filter

\* filter.agentId && ...: given and not the empty string
Truthy(filter, field) == Has(filter, field) /\ filter[field] # ""

\* Matches with an exclusive lower bound
MatchesAfterFrom(e, filter) ==
    /\ ~(Truthy(filter, "agentId") /\ e.agentId # filter.agentId)
    /\ ~(Truthy(filter, "tool") /\ e.tool # filter.tool)
    /\ ~(Truthy(filter, "decisionType") /\ e.decision.type # filter.decisionType)
    /\ ~(Has(filter, "from") /\ e.timestamp <= filter.from)
    /\ ~(Has(filter, "to") /\ e.timestamp > filter.to)

\* the callback of entries.filter in applyFilter
Matches(e, filter) ==
    /\ ~(Truthy(filter, "agentId") /\ e.agentId # filter.agentId)
    /\ ~(Truthy(filter, "tool") /\ e.tool # filter.tool)
    /\ ~(Truthy(filter, "decisionType") /\ e.decision.type # filter.decisionType)
    /\ ~(Has(filter, "from") /\ e.timestamp < filter.from)
    /\ ~(Has(filter, "to") /\ e.timestamp > filter.to)

\* applyFilter(entries, filter)
applyFilter(entries, filter) == SelectSeq(entries, LAMBDA e : Matches(e, filter))

\* Array.prototype.slice(start, end) for start, end >= 0
Slice(seq, start, end) ==
    LET last == IF end < Len(seq) THEN end ELSE Len(seq)
    IN  IF start < last THEN SubSeq(seq, start + 1, last) ELSE <<>>

\* Page taking limit as the end position
PageUpToLimit(results, filter) ==
    LET offset == IF Has(filter, "offset") THEN filter.offset ELSE DefaultOffset
        limit == IF Has(filter, "limit") THEN filter.limit ELSE DefaultLimit
    IN  Slice(results, offset, limit)

\* results.slice(offset, offset + limit)
Page(results, filter) ==
    LET offset == IF Has(filter, "offset") THEN filter.offset ELSE DefaultOffset
        limit == IF Has(filter, "limit") THEN filter.limit ELSE DefaultLimit
    IN  Slice(results, offset, offset + limit)

\* InMemoryAdapter.query(filter)
InMemoryQuery(m, filter) == Page(applyFilter(m.entries, filter), filter)

\* InMemoryAdapter.count(filter)
InMemoryCount(m, filter) == Len(applyFilter(m.entries, filter))

\* FileAdapter.query(filter)
FileQuery(f, filter) == Page(applyFilter(readAll(f), filter), filter)

\* FileAdapter.count(filter)
FileCount(f, filter) == Len(applyFilter(readAll(f), filter))

\* new InMemoryAdapter({ maxEntries }) and new FileAdapter(path,
\* { maxSizeBytes }) on a path without a file
InitStore ==
    /\ \E maxEntries \in 1..MaxCapacity : mem = [NoMem EXCEPT !.maxEntries = maxEntries]
    /\ \E maxSizeBytes \in 1..MaxSizeBytes :
          file = [NoFileAdapter EXCEPT !.maxSizeBytes = maxSizeBytes]
    /\ storeLog = NoStoreLog
    /\ lastRead = NoRead
    /\ e2e = NoE2E
    /\ UnusedGates
    /\ IdleLimiter
    /\ IdlePair
    /\ IdleAudit
    /\ IdleCtor
    /\ IdleExt

\* the number of writes made so far
Writes == storeLog.last.n

\* the same entry is written to both adapters; write is synchronous in both
write(entry) ==
    /\ mem # NoMem
    /\ mem' = InMemoryWrite(mem, entry)
    /\ file' = FileWrite(file, entry)
    /\ storeLog' =
          [storeLog EXCEPT
              !.writes = Append(@, entry),
              !.sinceRotation =
                  IF file'.rotated # file.rotated THEN <<entry>> ELSE Append(@, entry),
              !.rotations =
                  IF rotateIfNeeded(file) # file
                  THEN Append(@, Len(storeLog.writes) + 1) ELSE @,
              !.last = [n |-> Writes + 1,
                        sizeBefore |-> Size(file.current.content),
                        before |-> file.current,
                        clearedAfter |-> FALSE,
                        crashed |-> FALSE]]
    /\ lastRead' = NoRead
    /\ UNCHANGED <<e2e, gateVars, limiterVars, pairVars, auditVars, ctorVars, extVars>>

\* InMemoryAdapter.clear(); the FileAdapter has no clear
clear ==
    /\ mem # NoMem
    /\ mem.entries # <<>>
    /\ mem' = InMemoryClear(mem)
    /\ storeLog' = [storeLog EXCEPT !.cleared = TRUE, !.last.clearedAfter = TRUE]
    /\ lastRead' = NoRead
    /\ UNCHANGED <<file, e2e, gateVars, limiterVars, pairVars, auditVars, ctorVars, extVars>>

\* query(filter) on both adapters: the async function runs to its return
\* without suspending.  A read leaves the adapters as they are, so a read
\* that follows another read sees what it would have seen in its place: the
\* model takes reads from the state a write, a clear or the constructor left.
query(filter) ==
    /\ mem # NoMem
    /\ lastRead = NoRead
    /\ lastRead' = [kind |-> "query", filter |-> filter,
                    mem |-> InMemoryQuery(mem, filter),
                    file |-> FileQuery(file, filter)]
    /\ UNCHANGED <<mem, file, storeLog, e2e, gateVars, limiterVars, pairVars,
                   auditVars, ctorVars, extVars>>

\* count(filter) on both adapters
count(filter) ==
    /\ mem # NoMem
    /\ lastRead = NoRead
    /\ lastRead' = [kind |-> "count", filter |-> filter,
                    mem |-> InMemoryCount(mem, filter),
                    file |-> FileCount(file, filter)]
    /\ UNCHANGED <<mem, file, storeLog, e2e, gateVars, limiterVars, pairVars,
                   auditVars, ctorVars, extVars>>

\* the entries written in SpecStore: the n-th has id n and timestamp n
StoreEntries(n) == {StoredLogEntry(n, i, n) : i \in StoredIntents}

\* the filters of SpecStore: none, and the timestamp of the n-th write
StoreFilters(n) == {NoFilter, [from |-> n, to |-> n]}

NextStore ==
    \/ /\ Writes < MaxWrites
       /\ \E entry \in StoreEntries(Writes + 1) : write(entry)
    \/ clear
    \/ \E filter \in StoreFilters(Writes) : query(filter)
    \/ \E filter \in StoreFilters(Writes) : count(filter)

SpecStore == InitStore /\ [][NextStore]_vars

\* the process dies inside appendFileSync of write(entry), after
\* rotateIfNeeded: only the first bytes of the line reach the file, without
\* its terminator.  The next process creates its adapters anew on the path.
crash(entry, bytes) ==
    /\ mem # NoMem
    /\ bytes \in 1..JsonBytes(entry)
    /\ LET r == rotateIfNeeded(file)
       IN  /\ file' = [r EXCEPT !.current =
                          appendFileSync(r.current, <<JsonPrefix(entry, bytes)>>)]
           /\ storeLog' =
                 [storeLog EXCEPT
                     !.writes = <<>>,
                     !.cleared = FALSE,
                     !.sinceRotation = IF r # file THEN <<>> ELSE @,
                     !.rotations = <<>>,
                     !.last = [n |-> Writes + 1,
                               sizeBefore |-> Size(file.current.content),
                               before |-> file.current,
                               clearedAfter |-> FALSE,
                               crashed |-> TRUE]]
    /\ mem' = InMemoryClear(mem)
    /\ lastRead' = NoRead
    /\ UNCHANGED <<e2e, gateVars, limiterVars, pairVars, auditVars, ctorVars, extVars>>

NextCrash ==
    \/ NextStore
    \/ /\ Writes < MaxWrites
       /\ \E entry \in StoreEntries(Writes + 1), bytes \in 1..3 : crash(entry, bytes)

SpecCrash == InitStore /\ [][NextCrash]_vars

\* new InMemoryAdapter() and new FileAdapter(path) with their default options
InitQuery ==
    /\ mem = [NoMem EXCEPT !.maxEntries = DefaultMaxEntries]
    /\ file = [NoFileAdapter EXCEPT !.maxSizeBytes = DefaultMaxSizeBytes]
    /\ storeLog = NoStoreLog
    /\ lastRead = NoRead
    /\ e2e = NoE2E
    /\ UnusedGates
    /\ IdleLimiter
    /\ IdlePair
    /\ IdleAudit
    /\ IdleCtor
    /\ IdleExt

\* the entries written in SpecQuery: the n-th has id n, any timestamp
QueryEntries(n) ==
    {StoredLogEntry(n, i, t) : i \in StoredIntents, t \in 0..MaxStamp}

\* the fields of an AuditFilter
FilterFields == {"agentId", "tool", "decisionType", "from", "to", "limit", "offset"}

\* the filter that gives the fields in given their value in all
FilterOf(all, given) == [field \in given |-> all[field]]

\* the AuditFilter values of SpecQuery: any subset of the fields is given
Filters ==
    {FilterOf(all, given) :
        all \in [agentId : {"agent-a"}, tool : {"exec"}, decisionType : {"block"},
                 from : {1}, to : {1}, limit : {1}, offset : {1}],
        given \in SUBSET FilterFields}
    \cup
    {FilterOf(all, given) :
        all \in [agentId : {"agent-b"}, limit : 0..MaxPage, offset : 0..MaxPage],
        given \in SUBSET {"agentId", "limit", "offset"}}

NextQuery ==
    \/ /\ Writes < MaxQueryWrites
       /\ \E entry \in QueryEntries(Writes + 1) : write(entry)
    \/ \E filter \in Filters : query(filter)
    \/ \E filter \in Filters : count(filter)

SpecQuery == InitQuery /\ [][NextQuery]_vars

----------------------------------------------------------------------------
(* A gate whose logger is an AuditLogger over an InMemoryAdapter           *)

\* blockExec(): the rule it returns; NoDecision stands for null
blockExec(intent) ==
    IF intent.tool = "exec"
    THEN block(<<"Shell execution blocked by policy">>)
    ELSE NoDecision

\* allowAll(): the rule it returns
allowAll(intent) == allow

\* the rule of that name invoked with the intent
BuiltIn(name, intent) ==
    IF name = "blockExec" THEN blockExec(intent) ELSE allowAll(intent)

\* the rule lists of the gate
BuiltInRuleLists == {<<"blockExec", "allowAll">>, <<"blockExec">>}

RECURSIVE runRulesLastWins(_, _, _)
\* runRules returning the result of the last rule that gives one
runRulesLastWins(rules, intent, defaultDecision) ==
    IF rules = <<>> THEN defaultDecision
    ELSE LET rest == runRulesLastWins(Tail(rules), intent, defaultDecision)
         IN  IF rest # defaultDecision \/ BuiltIn(Head(rules), intent) = NoDecision
             THEN rest ELSE BuiltIn(Head(rules), intent)

RECURSIVE runRules(_, _, _)
\* Gate.runRules over built-in rules, none of which throws: the first result
\* that is not null, else this.defaultDecision
runRules(rules, intent, defaultDecision) ==
    IF rules = <<>> THEN defaultDecision
    ELSE IF BuiltIn(Head(rules), intent) # NoDecision
         THEN BuiltIn(Head(rules), intent)
         ELSE runRules(Tail(rules), intent, defaultDecision)

\* const adapter = new InMemoryAdapter({ maxEntries });
\* const audit = createAuditLogger(adapter, options);
\* const gate = createGate(rules, { defaultDecision, dryRun, logger: audit.log })
InitE2E ==
    /\ \E rules \in BuiltInRuleLists, d \in DefaultConfigs, dryRun \in BOOLEAN :
          e2e = [rules |-> rules, defaultDecision |-> d, dryRun |-> dryRun,
                 calls |-> <<>>]
    /\ \E maxEntries \in 1..MaxCapacity : mem = [NoMem EXCEPT !.maxEntries = maxEntries]
    /\ audit \in [hasTee : BOOLEAN, hasOnError : BOOLEAN]
    /\ auditCalls = <<>>
    /\ issued = {}
    /\ file = NoFileAdapter
    /\ storeLog = NoStoreLog
    /\ lastRead = NoRead
    /\ UnusedGates
    /\ IdleLimiter
    /\ IdlePair
    /\ IdleCtor
    /\ IdleExt

\* gate.evaluate(intent): runRules, then Gate.log hands the LogEntry to
\* AuditLogger.log, which calls the tee (its exception is caught), builds the
\* stored entry and calls adapter.write, which returns; then the return
e2eEvaluate(intent, teeThrew, id) ==
    /\ e2e.rules # <<>>
    /\ Len(e2e.calls) < MaxLogCalls
    /\ id \in randomUUID(issued)
    /\ ~TeeRaises(teeThrew)
    /\ LET decision == runRules(e2e.rules, intent, defaultDecisionOf(e2e))
           entry == LogEntry(e2e, intent, decision)
       IN  /\ mem' = InMemoryWrite(mem, Stored(id, entry))
           /\ e2e' = [e2e EXCEPT !.calls =
                         Append(@, [intent |-> intent,
                                    returned |-> Returned(e2e, decision),
                                    teeThrew |-> audit.hasTee /\ teeThrew])]
    /\ issued' = issued \cup {id}
    /\ UNCHANGED <<audit, auditCalls, file, storeLog, lastRead, gateVars,
                   limiterVars, pairVars, ctorVars, extVars>>

NextE2E ==
    \E intent \in StoredIntents, teeThrew \in BOOLEAN, id \in Uuids :
        e2eEvaluate(intent, teeThrew, id)

SpecE2E == InitE2E /\ [][NextE2E]_vars

----------------------------------------------------------------------------
(* createIntent (core/intent.ts)                                           *)

\* characters String.prototype.trim removes, as far as the inputs use them
Whitespace == {" ", "\t"}

\* the characters of the inputs
Chars == Whitespace \cup {"a"}

\* the agentId and target arguments: strings as sequences of characters
Strings == UNION {[1..n -> Chars] : n \in 0..MaxLen}

\* type ToolType
ToolTypes == {"exec", "browser", "http", "write"}

RECURSIVE TrimStart(_)
\* the string without its leading whitespace
TrimStart(str) ==
    IF str # <<>> /\ Head(str) \in Whitespace THEN TrimStart(Tail(str)) ELSE str

RECURSIVE TrimEnd(_)
\* the string without its trailing whitespace
TrimEnd(str) ==
    IF str # <<>> /\ str[Len(str)] \in Whitespace
    THEN TrimEnd(SubSeq(str, 1, Len(str) - 1))
    ELSE str

\* Trim leaving trailing whitespace in place
TrimStartOnly(str) == TrimStart(str)

\* String.prototype.trim
Trim(str) == TrimEnd(TrimStart(str))

\* !str || str.trim() === ""
Empty(str) == str = <<>> \/ Trim(str) = <<>>

\* throw new Error("createIntent: <field> must not be empty")
ValidationError(field) ==
    [kind |-> "threw", message |-> <<"createIntent:", field, "must not be empty">>]

\* createIntent(agentId, tool, target): what it throws or returns
createIntent(agentId, tool, target) ==
    IF Empty(agentId) THEN ValidationError("agentId")
    ELSE IF Empty(target) THEN ValidationError("target")
    ELSE [kind |-> "returned",
          intent |-> [agentId |-> Trim(agentId), tool |-> tool,
                      target |-> Trim(target)]]

\* the arguments of the createIntent call to come
InitIntent ==
    /\ \E agentId \in Strings, tool \in ToolTypes, target \in Strings :
          intentCall = [kind |-> "pending", agentId |-> agentId, tool |-> tool,
                        target |-> target, result |-> [kind |-> "none"]]
    /\ ctor = NoCtor
    /\ UnusedGates
    /\ IdleLimiter
    /\ IdlePair
    /\ IdleAudit
    /\ IdleStore
    /\ IdleExt

\* the call of createIntent
createIntentCall ==
    /\ intentCall.kind = "pending"
    /\ intentCall' =
          [intentCall EXCEPT
              !.kind = "called",
              !.result = createIntent(intentCall.agentId, intentCall.tool,
                                      intentCall.target)]
    /\ UNCHANGED <<ctor, gateVars, limiterVars, pairVars, auditVars, storeVars, extVars>>

NextIntent == createIntentCall

SpecIntent == InitIntent /\ [][NextIntent]_vars

----------------------------------------------------------------------------
(* Construction: rateLimit(options) and new Gate(config)                   *)

\* the options handed to rateLimit: maxCalls and windowMs of either sign
RateLimitOptions ==
    [maxCalls : (-1)..MaxMaxCalls, windowMs : (-1)..MaxWindowMs, perAgent : BOOLEAN]

\* throw new Error(message)
ConfigError(message) == [kind |-> "threw", message |-> message]

\* rateLimit returning a rule whatever the options are
rateLimitUnchecked(options) == [kind |-> "rule", options |-> options]

\* rateLimit(options): the parameter checks, then the rule closure
rateLimit(options) ==
    IF options.maxCalls <= 0 THEN ConfigError("rateLimit: maxCalls must be > 0")
    ELSE IF options.windowMs <= 0 THEN ConfigError("rateLimit: windowMs must be > 0")
    ELSE [kind |-> "rule", options |-> options]

\* config.rules: a list of numRules rules, or a value that is not an array
RulesArguments ==
    {[isArray |-> TRUE, numRules |-> n] : n \in 0..MaxRules}
        \cup {[isArray |-> FALSE, numRules |-> 0]}

\* new Gate(config): Array.isArray(config.rules) is required
NewGate(rules) ==
    IF ~rules.isArray THEN ConfigError("Gate: rules must be an array")
    ELSE [kind |-> "gate", rules |-> rules]

InitCtor ==
    /\ ctor = NoCtor
    /\ intentCall = NoIntentCall
    /\ UnusedGates
    /\ IdleLimiter
    /\ IdlePair
    /\ IdleAudit
    /\ IdleStore
    /\ IdleExt

\* what was constructed has not been used
Constructed(kind, args, result) ==
    [kind |-> kind, args |-> args, result |-> result, calls |-> 0,
     blocked |-> FALSE, failed |-> FALSE]

\* const rule = rateLimit(options)
rateLimitCall(options) ==
    /\ ctor = NoCtor
    /\ ctor' = Constructed("rateLimit", options, rateLimit(options))
    /\ UNCHANGED <<intentCall, gateVars, limiterVars, pairVars, auditVars, storeVars, extVars>>

\* rule(intent) while Date.now() = now.  With no timestamp left after the
\* pruning a block reads timestamps[0] = undefined: the call fails to
\* compute its retry-after.
ruleCall(agentId, now) ==
    /\ ctor.kind = "rateLimit"
    /\ ctor.result.kind = "rule"
    /\ ctor.calls < MaxInvocations
    /\ LET opts == ctor.result.options
           r == rateLimitApply(opts, windows, agentId, now)
           timestamps == Pruned(windows, KeyOf(opts, agentId), now, opts.windowMs)
       IN  /\ windows' = r.windows
           /\ ctor' = [ctor EXCEPT !.calls = @ + 1,
                                   !.blocked = r.blocked,
                                   !.failed = @ \/ (r.blocked /\ timestamps = <<>>)]
    /\ UNCHANGED <<intentCall, limiter, admitted, lastCall, gateVars, pairVars,
                   auditVars, storeVars, extVars>>

\* const gate = new Gate({ rules })
newGateCall(rules) ==
    /\ ctor = NoCtor
    /\ ctor' = Constructed("Gate", rules, NewGate(rules))
    /\ UNCHANGED <<intentCall, gateVars, limiterVars, pairVars, auditVars, storeVars, extVars>>

\* gate.evaluate(intent): for (const rule of this.rules) throws out of
\* evaluate when this.rules cannot be iterated; over a list every rule
\* outcome ends in a Decision
gateEvaluateCall ==
    /\ ctor.kind = "Gate"
    /\ ctor.result.kind = "gate"
    /\ ctor.calls < MaxInvocations
    /\ ctor' = [ctor EXCEPT !.calls = @ + 1,
                            !.failed = @ \/ ~ctor.result.rules.isArray]
    /\ UNCHANGED <<intentCall, gateVars, limiterVars, pairVars, auditVars, storeVars, extVars>>

NextCtor ==
    \/ \E options \in RateLimitOptions : rateLimitCall(options)
    \/ \E agentId \in Agents, now \in 0..MaxTime : ruleCall(agentId, now)
    \/ \E rules \in RulesArguments : newGateCall(rules)
    \/ gateEvaluateCall

SpecCtor == InitCtor /\ [][NextCtor]_vars

----------------------------------------------------------------------------
(* Built-in rules (core/gate.ts) as a policy                               *)

\* payload?: opaque
NoPayload == <<>>

\* metadata?: { timestamp?, sessionId?, reason? }
NoMetadata == <<>>

\* what an intent carries beside agentId, tool and target
Extras ==
    { [payload |-> NoPayload, metadata |-> NoMetadata],
      [payload |-> <<"rm", "-rf", "/">>, metadata |-> [reason |-> "approved"]] }

\* agentId, tool and target of the intents handed to the policy
PolicyIntents ==
    { [agentId |-> "agent-a", tool |-> "exec", target |-> "ls"],
      [agentId |-> "agent-a", tool |-> "write", target |-> "/etc/passwd"],
      [agentId |-> "agent-a", tool |-> "http", target |-> "https://example.com/x"],
      [agentId |-> "agent-a", tool |-> "http", target |-> "https://api.openai.com/v1"],
      [agentId |-> "agent-a", tool |-> "http", target |-> "ls"],
      [agentId |-> "agent-a", tool |-> "browser", target |-> "https://example.com/x"],
      [agentId |-> "agent-b", tool |-> "browser", target |-> "ls"],
      [agentId |-> "agent-b", tool |-> "write", target |-> "ls"],
      [agentId |-> "agent-c", tool |-> "http", target |-> "https://api.openai.com/v1"] }

\* new URL(target).hostname: the constructor throws on a string that is no
\* absolute URL
URLHostname(target) ==
    CASE target = "https://example.com/x" -> [ok |-> TRUE, hostname |-> "example.com"]
      [] target = "https://api.openai.com/v1" -> [ok |-> TRUE, hostname |-> "api.openai.com"]
      [] OTHER -> [ok |-> FALSE, hostname |-> ""]

\* /^\/etc\//, with or without the g flag: the targets it matches, at index 0
SensitivePatterns(global) == << [matches |-> {"/etc/passwd"}, global |-> global] >>

\* pattern.test(str) of a pattern anchored at ^ whose lastIndex is lastIndex:
\* with the g flag the search starts at lastIndex, where ^ cannot match unless
\* lastIndex is 0; a match leaves lastIndex behind the match, a failure at 0
RegExpTest(pattern, lastIndex, str) ==
    LET found == str \in pattern.matches /\ (~pattern.global \/ lastIndex = 0)
    IN  [ found |-> found,
          lastIndex |-> IF ~pattern.global THEN lastIndex
                        ELSE IF found THEN 1 ELSE 0 ]

\* the state a policy's rules keep between calls: the Map of its rateLimit
\* rule and the lastIndex of each pattern of its blockSensitivePaths rule
NoRuleState == [windows |-> <<>>, lastIndex |-> <<0>>]

RECURSIVE TestPatterns(_, _, _, _)
\* for (const pattern of patterns) if (pattern.test(intent.target)) return block:
\* whether a pattern from position k on matched, and every lastIndex after
TestPatterns(patterns, lastIndex, k, str) ==
    IF k > Len(patterns) THEN [found |-> FALSE, lastIndex |-> lastIndex]
    ELSE LET t == RegExpTest(patterns[k], lastIndex[k], str)
             after == [lastIndex EXCEPT ![k] = t.lastIndex]
         IN  IF t.found THEN [found |-> TRUE, lastIndex |-> after]
             ELSE TestPatterns(patterns, after, k + 1, str)

\* blockExec trusting an intent whose metadata gives a reason
blockExecUnlessExcused(intent) ==
    IF intent.tool = "exec" /\ intent.metadata = NoMetadata
    THEN block(<<"Shell execution blocked by policy">>)
    ELSE NoDecision

\* blockExec(): the rule it returns, which reads intent.tool only
blockExecRule(intent) == blockExec(intent)

\* One built-in rule invoked with the intent while Date.now() = now: what it
\* returns (NoDecision for null), the state of the rules and the intent after
ApplyRule(rule, intent, st, now) ==
    LET through == [decision |-> NoDecision, st |-> st, intent |-> intent]
        decided(d) == [decision |-> d, st |-> st, intent |-> intent]
    IN  CASE rule.name = "blockExec" -> decided(blockExecRule(intent))
          [] rule.name = "blockSensitivePaths" ->
               IF intent.tool \in {"write", "exec"}
               THEN LET t == TestPatterns(rule.patterns, st.lastIndex, 1, intent.target)
                    IN  [ decision |-> IF t.found
                                       THEN block(<<"Access to sensitive path blocked: ",
                                                    intent.target>>)
                                       ELSE NoDecision,
                          st |-> [st EXCEPT !.lastIndex = t.lastIndex],
                          intent |-> intent ]
               ELSE through
          [] rule.name = "requireApprovalForExternalHttp" ->
               IF intent.tool = "http"
               THEN LET u == URLHostname(intent.target)
                    IN  IF ~u.ok THEN decided(block(<<"Invalid URL: ", intent.target>>))
                        ELSE IF u.hostname \notin rule.allowedDomains
                        THEN decided(requireApproval(<<"External HTTP request to ",
                                                       u.hostname>>))
                        ELSE through
               ELSE through
          [] rule.name = "requireApprovalForExternalBrowser" ->
               IF intent.tool = "browser"
               THEN LET u == URLHostname(intent.target)
                    IN  IF ~u.ok
                        THEN decided(block(<<"Invalid browser URL: ", intent.target>>))
                        ELSE IF u.hostname \notin rule.allowedDomains
                        THEN decided(requireApproval(
                                 <<"Browser navigation to external domain: ", u.hostname>>))
                        ELSE through
               ELSE through
          [] rule.name = "allowOnlyAgents" ->
               IF intent.agentId \notin rule.agentIds
               THEN decided(block(<<"Agent not permitted: ", intent.agentId>>))
               ELSE through
          [] rule.name = "blockAgents" ->
               IF intent.agentId \in rule.agentIds
               THEN decided(block(<<"Agent is blocked: ", intent.agentId>>))
               ELSE through
          [] rule.name = "rateLimit" ->
               LET r == rateLimitApply(rule.options, st.windows, intent.agentId, now)
               IN  [ decision |-> IF r.blocked THEN block(<<"Rate limit exceeded">>)
                                  ELSE NoDecision,
                     st |-> [st EXCEPT !.windows = r.windows],
                     intent |-> intent ]
          [] rule.name = "allowAll" -> decided(allowAll(intent))

RECURSIVE runRulesFrom(_, _, _, _, _, _)
\* Gate.runRules over built-in rules from position k on: the decision, the
\* state of the rules and the intent after, and the rules invoked
runRulesFrom(rules, k, intent, st, now, defaultDecision) ==
    IF k > Len(rules)
    THEN [decision |-> defaultDecision, st |-> st, intent |-> intent, invoked |-> <<>>]
    ELSE LET r == ApplyRule(rules[k], intent, st, now)
         IN  IF r.decision # NoDecision
             THEN [r EXCEPT !.decision = r.decision] @@ [invoked |-> <<rules[k].name>>]
             ELSE LET rest == runRulesFrom(rules, k + 1, r.intent, r.st, now,
                                           defaultDecision)
                  IN  [rest EXCEPT !.invoked = <<rules[k].name>> \o @]

\* the policies: every built-in rule, with and without blockExec ahead, and
\* a rateLimit rule alone before the default decision
Policies(options, global) ==
    LET body == << [name |-> "blockAgents", agentIds |-> {"agent-c"}],
                   [name |-> "allowOnlyAgents", agentIds |-> {"agent-a", "agent-c"}],
                   [name |-> "blockSensitivePaths", patterns |-> SensitivePatterns(global)],
                   [name |-> "requireApprovalForExternalHttp",
                    allowedDomains |-> {"api.openai.com"}],
                   [name |-> "requireApprovalForExternalBrowser",
                    allowedDomains |-> {"api.openai.com"}],
                   [name |-> "rateLimit", options |-> options],
                   [name |-> "allowAll"] >>
    IN  { body,
          <<[name |-> "blockExec"]>> \o body,
          << [name |-> "blockSensitivePaths", patterns |-> SensitivePatterns(global)],
             [name |-> "rateLimit", options |-> options] >> }

\* the two runs
Runs == {1, 2}

MaxPolicyCalls == 2

\* createGate(policy, { defaultDecision, dryRun, logger }) in both runs
InitPayload ==
    /\ \E options \in [maxCalls : {1}, windowMs : {1}, perAgent : BOOLEAN],
          global \in BOOLEAN, d \in {NoDecision, allow}, dryRun \in BOOLEAN :
         \E policy \in Policies(options, global) :
            runs = [ rules |-> policy,
                     defaultDecision |-> d,
                     dryRun |-> dryRun,
                     now |-> 0,
                     calls |-> 0,
                     run |-> [r \in Runs |->
                                [ st |-> NoRuleState, decisions |-> <<>>,
                                  entries |-> <<>>, invoked |-> <<>>,
                                  given |-> NoIntent, after |-> NoIntent ]] ]
    /\ conc = NoConc
    /\ UnusedGates
    /\ IdleLimiter
    /\ IdlePair
    /\ IdleAudit
    /\ IdleStore
    /\ IdleCtor

\* one run's gate.evaluate(intent) while Date.now() = now
PolicyEvaluate(p, r, intent, now) ==
    LET res == runRulesFrom(p.rules, 1, intent, r.st, now, defaultDecisionOf(p))
    IN  [ st |-> res.st,
          decisions |-> Append(r.decisions, Returned(p, res.decision)),
          entries |-> Append(r.entries, LogEntry(p, res.intent, res.decision)),
          invoked |-> res.invoked,
          given |-> intent,
          after |-> res.intent ]

\* gate.evaluate in both runs at the same time now, on intents with the same
\* agentId, tool and target and with the payload and metadata of extras[r]
policyEvaluate(core, extras, now) ==
    /\ runs # NoRuns
    /\ runs.calls < MaxPolicyCalls
    /\ now >= runs.now /\ now <= MaxTime
    /\ runs' = [runs EXCEPT
                  !.now = now,
                  !.calls = @ + 1,
                  !.run = [r \in Runs |->
                             PolicyEvaluate(runs, runs.run[r], core @@ extras[r], now)]]
    /\ UNCHANGED <<conc, gateVars, limiterVars, pairVars, auditVars, storeVars, ctorVars>>

\* the runs receive different payload and metadata; the clock stands still
\* or advances by a millisecond between calls
NextPayload ==
    \E core \in PolicyIntents, extras \in [Runs -> Extras], step \in {0, 1} :
        /\ extras[1] # extras[2]
        /\ policyEvaluate(core, extras, runs.now + step)

SpecPayload == InitPayload /\ [][NextPayload]_vars

----------------------------------------------------------------------------
(* Concurrent calls on one gate with a rateLimit rule                      *)

MaxConcCalls == 2

\* the rules of the gate: a rateLimit rule before allowAll
ConcRules(options) ==
    << [name |-> "rateLimit", options |-> options], [name |-> "allowAll"] >>

\* the verdict of the limiter when it blocks
RateLimited == block(<<"Rate limit exceeded">>)

\* createGate(rules, { logger }); Date.now() is 0
InitConc ==
    /\ \E options \in [maxCalls : 1..MaxMaxCalls, windowMs : 1..MaxWindowMs,
                       perAgent : BOOLEAN] :
            conc = [ rules |-> ConcRules(options), options |-> options,
                     defaultDecision |-> NoDecision, dryRun |-> FALSE,
                     hasLogger |-> TRUE,
                     st |-> NoRuleState, now |-> 0,
                     calls |-> <<>>, log |-> <<>>, passed |-> <<>> ]
    /\ runs = NoRuns
    /\ UnusedGates
    /\ IdleLimiter
    /\ IdlePair
    /\ IdleAudit
    /\ IdleStore
    /\ IdleCtor

\* the rateLimit rule was invoked in the chain res and returned null
RateLimitPassed(res) ==
    \E j \in 1..Len(res.invoked) :
        res.invoked[j] = "rateLimit" /\ (j < Len(res.invoked) \/ res.decision # RateLimited)

\* the locals of a call after const syncDecision = this.runRules(intent)
\* returned res
SyncPhase(kind, intent, n, res) ==
    [ pc |-> "runRules", kind |-> kind, intent |-> intent, asyncN |-> n,
      i |-> 1, invoked |-> res.invoked, syncDecision |-> res.decision,
      asyncInvoked |-> <<>>, decision |-> NoDecision, entries |-> <<>>,
      loggerThrew |-> FALSE, result |-> NoDecision ]

\* this.log(intent, decision, ...); return this.dryRun ? allow : decision
Finish(g, c, decision) ==
    [AfterLog(g, [c EXCEPT !.decision = decision], FALSE)
        EXCEPT !.pc = "done", !.result = Returned(g, decision)]

\* what the promise of an async rule settles to in SpecConc: null or a
\* Decision
ConcSettlements ==
    { [kind |-> "null"],
      [kind |-> "decision", decision |-> block(<<"rule">>)] }

\* evaluateAsync runs on from the head of its loop until it suspends at the
\* await of the promise its next async rule returns, or returns
Continue(g, c) ==
    IF c.i > c.asyncN THEN Finish(g, c, defaultDecisionOf(g))
    ELSE [c EXCEPT !.asyncInvoked = Append(@, [rule |-> c.i, outcome |-> Pending]),
                   !.pc = "await"]

\* Resumed picking up the locals of the call made last
ResumedLatest(calls, k) == calls[Len(calls)]

\* the locals (intent, start, the position in the loop) a call finds when
\* the promise it awaits settles: its own
Resumed(calls, k) == calls[k]

\* the gate after call number k has run up to its next await or its return
\* and is left as c: the log entry it emitted, if any, is the logger's next
Record(g, k, c) ==
    [g EXCEPT
        !.calls = [j \in 1..(IF k > Len(g.calls) THEN k ELSE Len(g.calls)) |->
                      IF j = k THEN c ELSE g.calls[j]],
        !.log = IF c.pc = "done"
                THEN Append(@, [call |-> k, entry |-> c.entries[Len(c.entries)]])
                ELSE @ ]

\* the rules ran for call number k on intent: their state, and the admission
\* of the call by the limiter
Ran(g, k, intent, res) ==
    [g EXCEPT
        !.st = res.st,
        !.passed = IF RateLimitPassed(res)
                   THEN Append(@, [key |-> KeyOf(g.options, intent.agentId),
                                   t |-> g.now, call |-> k])
                   ELSE @ ]

\* gate.evaluate(intent): synchronous, so it runs to its return
concEvaluate(intent) ==
    LET k == Len(conc.calls) + 1
        res == runRulesFrom(conc.rules, 1, intent, conc.st, conc.now,
                            defaultDecisionOf(conc))
        c == Finish(conc, SyncPhase("evaluate", intent, 0, res), res.decision)
    IN  /\ conc # NoConc
        /\ k <= MaxConcCalls
        /\ conc' = Record(Ran(conc, k, intent, res), k, c)
        /\ UNCHANGED <<runs, gateVars, limiterVars, pairVars, auditVars, storeVars, ctorVars>>

\* gate.evaluateAsync(intent, asyncRules), asyncRules of length n: it runs
\* runRules and on, without suspending, until its first await or its return
concEvaluateAsync(intent, n) ==
    LET k == Len(conc.calls) + 1
        res == runRulesFrom(conc.rules, 1, intent, conc.st, conc.now,
                            defaultDecisionOf(conc))
        c0 == SyncPhase("evaluateAsync", intent, n, res)
        c == IF SkipsAsyncRules(res.decision, n)
             THEN Finish(conc, c0, res.decision)
             ELSE Continue(conc, [c0 EXCEPT !.pc = "asyncRules"])
    IN  /\ conc # NoConc
        /\ k <= MaxConcCalls
        /\ conc' = Record(Ran(conc, k, intent, res), k, c)
        /\ UNCHANGED <<runs, gateVars, limiterVars, pairVars, auditVars, storeVars, ctorVars>>

\* the promise call number k awaits settles with o, and the call runs on
\* until its next await or its return
concSettle(k, o) ==
    /\ conc # NoConc
    /\ k \in 1..Len(conc.calls)
    /\ conc.calls[k].pc = "await"
    /\ LET r == Resumed(conc.calls, k)
           c == [r EXCEPT !.asyncInvoked[Len(r.asyncInvoked)].outcome = o]
           s == asyncRulesStep(o)
       IN  conc' = Record(conc, k,
                          IF s.to = "next"
                          THEN Continue(conc, [c EXCEPT !.i = @ + 1,
                                                        !.pc = "asyncRules"])
                          ELSE Finish(conc, c, s.decision))
    /\ UNCHANGED <<runs, gateVars, limiterVars, pairVars, auditVars, storeVars, ctorVars>>

\* Date.now() advances by a millisecond.  The clock is read by the rules
\* only, in the synchronous phase that opens a call, so the model lets it
\* advance while a call can still be made.
concTick ==
    /\ conc # NoConc
    /\ conc.now < MaxTime
    /\ Len(conc.calls) < MaxConcCalls
    /\ conc' = [conc EXCEPT !.now = @ + 1]
    /\ UNCHANGED <<runs, gateVars, limiterVars, pairVars, auditVars, storeVars, ctorVars>>

NextConc ==
    \/ \E intent \in Intents : concEvaluate(intent)
    \/ \E intent \in Intents, n \in 0..MaxAsyncRules : concEvaluateAsync(intent, n)
    \/ \E k \in 1..MaxConcCalls, o \in ConcSettlements : concSettle(k, o)
    \/ concTick

SpecConc == InitConc /\ [][NextConc]_vars

----------------------------------------------------------------------------
(* Properties of the Gate (Spec)                                           *)

Done(g) == call[g].pc = "done"

\* runRules has returned in the call of g
RanRules(g) == call[g].pc \in {"asyncRules", "await", "log", "return", "done"}

\* every rule invoked before position k passed through
PassedBefore(inv, k) == \A j \in 1..(k - 1) : inv[j].outcome.kind = "null"

\* the last rule invoked threw and every earlier one passed through
LastThrew(inv) ==
    /\ Len(inv) > 0
    /\ inv[Len(inv)].outcome.kind = "throw"
    /\ PassedBefore(inv, Len(inv))

\* the two calls were given the same intent, arguments and rule outcomes
SameInputs(g, h) ==
    /\ call[g].kind = call[h].kind
    /\ call[g].intent = call[h].intent
    /\ call[g].asyncN = call[h].asyncN
    /\ call[g].invoked = call[h].invoked
    /\ call[g].asyncInvoked = call[h].asyncInvoked

\* C1: when a synchronous rule throws in evaluate (every earlier rule having
\* passed through) on a gate that is not in dry-run mode, evaluate returns a
\* block decision: it does not throw and returns neither allow nor
\* require-approval.
C1_FailClosedSync ==
    \A g \in Gates :
        (/\ call[g].kind = "evaluate"
         /\ ~gate[g].dryRun
         /\ \E k \in 1..Len(call[g].invoked) :
               /\ call[g].invoked[k].outcome.kind = "throw"
               /\ PassedBefore(call[g].invoked, k))
        => /\ call[g].result # Threw
           /\ Done(g) => call[g].result.type = "block"

C1_Witness ==
    \E g \in Gates :
        /\ Done(g) /\ call[g].kind = "evaluate" /\ ~gate[g].dryRun
        /\ Len(call[g].invoked) = 2 /\ LastThrew(call[g].invoked)
        /\ call[g].result.type = "block"

\* C2: evaluate and evaluateAsync are total: a finished call has produced
\* exactly one of allow / block / require-approval, never no value, and no
\* exception or rejection leaves the gate, whatever the rules and the logger do.
C2_Totality ==
    \A g \in Gates :
        /\ call[g].result # Threw
        /\ Done(g) => call[g].result.type \in DecisionTypes

C2_Witness ==
    \E g \in Gates :
        /\ Done(g) /\ call[g].kind = "evaluateAsync"
        /\ call[g].loggerThrew
        /\ Len(call[g].asyncInvoked) > 0
        /\ call[g].asyncInvoked[Len(call[g].asyncInvoked)].outcome.kind = "throw"
        /\ call[g].result.type \in DecisionTypes

\* C3: the synchronous rules are invoked in declaration order, each at most
\* once; the rules invoked are the prefix of the list up to and including
\* the first rule that returns a decision or throws; in evaluate the computed
\* decision is that rule's decision, or a block if it threw.
C3_OrderedShortCircuit ==
    \A g \in Gates :
        LET inv == call[g].invoked
            n == Len(inv)
        IN  /\ n <= gate[g].numRules
            /\ \A k \in 1..n : inv[k].rule = k
            /\ PassedBefore(inv, n)
            /\ RanRules(g) =>
                  \/ n = gate[g].numRules /\ (n > 0 => inv[n].outcome.kind = "null")
                  \/ n > 0 /\ inv[n].outcome.kind # "null"
            /\ (RanRules(g) /\ call[g].kind = "evaluate" /\ n > 0) =>
                  /\ inv[n].outcome.kind = "decision"
                        => call[g].decision = inv[n].outcome.decision
                  /\ inv[n].outcome.kind = "throw"
                        => call[g].decision.type = "block"

C3_Witness ==
    \E g \in Gates :
        /\ Done(g) /\ call[g].kind = "evaluate"
        /\ gate[g].numRules = 2 /\ Len(call[g].invoked) = 1
        /\ call[g].invoked[1].outcome.kind = "decision"
        /\ call[g].decision = call[g].invoked[1].outcome.decision

\* C4: when every synchronous rule passes through, or there is none, the
\* decision evaluate computes is the configured default decision; with no
\* default configured it is require-approval, so it is allow only where allow
\* was configured as the default.
C4_DefaultDecision ==
    \A g \in Gates :
        (/\ call[g].kind = "evaluate"
         /\ RanRules(g)
         /\ Len(call[g].invoked) = gate[g].numRules
         /\ \A k \in 1..Len(call[g].invoked) :
               call[g].invoked[k].outcome.kind = "null")
        => /\ gate[g].config.defaultDecision # NoDecision
                => call[g].decision = gate[g].config.defaultDecision
           /\ gate[g].config.defaultDecision = NoDecision
                => call[g].decision.type = "require-approval"
           /\ call[g].decision.type = "allow"
                => gate[g].config.defaultDecision = allow

C4_Witness ==
    \E g \in Gates :
        /\ Done(g) /\ call[g].kind = "evaluate"
        /\ gate[g].numRules = 2 /\ Len(call[g].invoked) = 2
        /\ \A k \in 1..2 : call[g].invoked[k].outcome.kind = "null"
        /\ gate[g].config.defaultDecision = NoDecision
        /\ call[g].result.type = "require-approval"

\* C5: on a gate in dry-run mode every evaluate and every evaluateAsync call
\* returns allow, whichever way the call ends.
C5_DryRunAllows ==
    \A g \in Gates : (gate[g].dryRun /\ Done(g)) => call[g].result = allow

C5_Witness ==
    \E g \in Gates :
        /\ gate[g].dryRun /\ Done(g) /\ call[g].kind = "evaluateAsync"
        /\ Len(call[g].asyncInvoked) = 2
        /\ call[g].asyncInvoked[2].outcome.kind = "throw"
        /\ call[g].decision.type = "block"
        /\ call[g].result = allow

\* C6: a gate in dry-run mode and an enforcing gate, given the same rules,
\* default decision, intents and rule outcomes: the decision in the dry-run
\* gate's log entry is the decision the enforcing gate returns and logs; the
\* dry-run entry has dryRun = true, the enforcing entry dryRun = false.
C6_DryRunLogsRealDecision ==
    \A d \in Gates, e \in Gates :
        (/\ gate[d].dryRun /\ ~gate[e].dryRun
         /\ Done(d) /\ Done(e)
         /\ SameInputs(d, e))
        => /\ gate[d].hasLogger =>
                 /\ Len(call[d].entries) = 1
                 /\ call[d].entries[1].decision = call[e].result
                 /\ call[d].entries[1].dryRun = TRUE
           /\ gate[e].hasLogger =>
                 /\ Len(call[e].entries) = 1
                 /\ call[e].entries[1].decision = call[e].result
                 /\ call[e].entries[1].dryRun = FALSE

C6_Witness ==
    \E d \in Gates, e \in Gates :
        /\ gate[d].dryRun /\ ~gate[e].dryRun
        /\ gate[d].hasLogger /\ gate[e].hasLogger
        /\ Done(d) /\ Done(e) /\ SameInputs(d, e)
        /\ call[e].result.type = "block"
        /\ call[d].result = allow
        /\ call[d].entries[1].decision = call[e].result

\* C7: on a gate with a logger, every finished evaluate / evaluateAsync call
\* has invoked the logger exactly once, whichever way the call ended, and
\* the entry carries the agentId, tool and target of the evaluated intent.
C7_OneLogEntryPerCall ==
    \A g \in Gates :
        /\ Len(call[g].entries) <= 1
        /\ (gate[g].hasLogger /\ Done(g)) =>
              /\ Len(call[g].entries) = 1
              /\ call[g].entries[1].agentId = call[g].intent.agentId
              /\ call[g].entries[1].tool = call[g].intent.tool
              /\ call[g].entries[1].target = call[g].intent.target

C7_Witness ==
    \E g \in Gates :
        /\ gate[g].hasLogger /\ Done(g) /\ call[g].kind = "evaluateAsync"
        /\ Len(call[g].asyncInvoked) = 2
        /\ Len(call[g].entries) = 1
        /\ call[g].entries[1].agentId = "agent-b"
        /\ call[g].entries[1].tool = "http"

\* C8: a logger that throws changes nothing: the call returns the decision
\* it returns when the logger does not throw, and the exception does not
\* reach the caller.
C8_LoggerFailureIsolated ==
    \A g \in Gates, h \in Gates :
        (/\ gate[g].hasLogger /\ gate[h].hasLogger
         /\ gate[g].dryRun = gate[h].dryRun
         /\ call[g].loggerThrew /\ ~call[h].loggerThrew
         /\ Done(g) /\ Done(h)
         /\ SameInputs(g, h))
        => /\ call[g].result # Threw
           /\ call[g].result = call[h].result

C8_Witness ==
    \E g \in Gates, h \in Gates :
        /\ gate[g].hasLogger /\ gate[h].hasLogger
        /\ ~gate[g].dryRun /\ ~gate[h].dryRun
        /\ call[g].loggerThrew /\ ~call[h].loggerThrew
        /\ Done(g) /\ Done(h) /\ SameInputs(g, h)
        /\ call[g].result.type = "require-approval"
        /\ call[h].result = call[g].result

\* C9: every log entry has level error iff its decision is block, warn iff
\* require-approval, info iff allow, and its decision is the decision the
\* gate computed, also in dry-run mode where allow is returned.
C9_LevelFromRealDecision ==
    \A g \in Gates :
        \A k \in 1..Len(call[g].entries) :
            LET entry == call[g].entries[k]
            IN  /\ entry.level = "error" <=> entry.decision.type = "block"
                /\ entry.level = "warn" <=> entry.decision.type = "require-approval"
                /\ entry.level = "info" <=> entry.decision.type = "allow"
                /\ entry.decision = call[g].decision

C9_Witness ==
    \E g \in Gates :
        /\ gate[g].dryRun /\ Done(g)
        /\ Len(call[g].entries) = 1
        /\ call[g].entries[1].level = "warn"
        /\ call[g].entries[1].decision.type = "require-approval"
        /\ call[g].result = allow

----------------------------------------------------------------------------
(* Properties of rateLimit (SpecRL)                                        *)

\* the rule has been invoked at least once
Invoked == lastCall.before > 0

\* the calls admitted before the latest invocation, with its key, whose
\* timestamp t satisfies T - t < windowMs for the time T of that invocation
RecentAdmitted ==
    {k \in 1..Len(lastCall.admittedBefore) :
        /\ lastCall.admittedBefore[k].key = lastCall.key
        /\ lastCall.now - lastCall.admittedBefore[k].t < limiter.windowMs}

\* C10 as stated: a call at time T is blocked iff at least maxCalls calls
\* admitted before it with the same key have timestamps t with
\* T - t < windowMs; otherwise it passes through.
C10_SlidingWindowVerdict_AnyClock ==
    Invoked => (lastCall.blocked <=> Cardinality(RecentAdmitted) >= limiter.maxCalls)

\* C10 (amended): provided Date.now() has not gone backwards between the
\* invocations of the rule, a call at time T is blocked iff at least maxCalls
\* calls admitted before it with the same key (the agentId if perAgent, else
\* the one global key) have timestamps t with T - t < windowMs; otherwise it
\* passes through.
C10_SlidingWindowVerdict ==
    (Invoked /\ lastCall.clockOrdered)
        => /\ lastCall.key = (IF limiter.perAgent THEN lastCall.agentId ELSE "__global__")
           /\ lastCall.blocked <=> Cardinality(RecentAdmitted) >= limiter.maxCalls

\* in global mode a call is blocked, within one window, by maxCalls = 2
\* admitted calls of another agent
C10_Witness ==
    /\ Invoked /\ lastCall.clockOrdered /\ lastCall.blocked
    /\ ~limiter.perAgent /\ limiter.maxCalls = 2
    /\ Cardinality(RecentAdmitted) = 2
    /\ \A k \in RecentAdmitted : lastCall.admittedBefore[k].agentId # lastCall.agentId

\* C12: in every reachable state of a rateLimit rule, whatever the calls and
\* their times, the timestamp sequence stored for each key has at most
\* maxCalls entries.
C12_BoundedWindow ==
    \A k \in DOMAIN windows : Len(windows[k]) <= limiter.maxCalls

C12_Witness ==
    /\ Invoked /\ lastCall.blocked /\ limiter.maxCalls = 2
    /\ lastCall.before = MaxInvocations
    /\ Len(windows[lastCall.key]) = limiter.maxCalls

----------------------------------------------------------------------------
(* Properties of evaluateAsync (Spec)                                      *)

Async(g) == call[g].kind = "evaluateAsync"

\* the last element of a non-empty sequence
Last(seq) == seq[Len(seq)]

\* the synchronous chain of the call of g ended in a rule's verdict: the
\* last rule invoked returned a decision or threw
SyncDecisive(g) ==
    /\ Len(call[g].invoked) > 0
    /\ Last(call[g].invoked).outcome.kind # "null"

\* the type of the decision the synchronous chain of g's call produced,
\* read from the outcomes of the rules invoked and the configured default
SyncResultType(g) ==
    IF SyncDecisive(g)
    THEN IF Last(call[g].invoked).outcome.kind = "decision"
         THEN Last(call[g].invoked).outcome.decision.type
         ELSE "block"
    ELSE gate[g].defaultDecision.type

\* the decision handed to the logger in g's call is d
Logged(g, d) == Len(call[g].entries) = 1 /\ call[g].entries[1].decision = d

\* C13: in evaluateAsync, when the result of the synchronous chain (a rule's
\* decision, a fail-closed block or the default decision) is not allow, no
\* async rule is invoked for that call and the logged decision is that
\* synchronous result.
C13_SyncNonAllowSkipsAsync ==
    \A g \in Gates :
        (Async(g) /\ RanRules(g) /\ SyncResultType(g) # "allow")
        => /\ call[g].asyncInvoked = <<>>
           /\ call[g].decision.type = SyncResultType(g)
           /\ (SyncDecisive(g) /\ Last(call[g].invoked).outcome.kind = "decision")
                 => call[g].decision = Last(call[g].invoked).outcome.decision
           /\ ~SyncDecisive(g) => call[g].decision = gate[g].defaultDecision
           /\ (Done(g) /\ gate[g].hasLogger) => Logged(g, call[g].decision)

C13_Witness ==
    \E g \in Gates :
        /\ Async(g) /\ Done(g) /\ call[g].asyncN = 2 /\ gate[g].hasLogger
        /\ Len(call[g].invoked) = 2 /\ Last(call[g].invoked).outcome.kind = "throw"
        /\ call[g].asyncInvoked = <<>>
        /\ Logged(g, call[g].decision) /\ call[g].decision.type = "block"

\* C14 as stated: in evaluateAsync, once a synchronous rule has returned a
\* decision of any variant, allow included, no async rule is invoked for
\* that call.
C14_AnySyncVerdictEndsCall ==
    \A g \in Gates :
        (/\ Async(g)
         /\ SyncDecisive(g)
         /\ Last(call[g].invoked).outcome.kind = "decision")
        => call[g].asyncInvoked = <<>>

\* the state part of C14 (amended)
C14_FirstDecisiveInv ==
    \A g \in Gates :
        Async(g) =>
            LET inv == call[g].invoked
                ainv == call[g].asyncInvoked
            IN  /\ (SyncDecisive(g) /\ SyncResultType(g) # "allow") => ainv = <<>>
                /\ ainv # <<>> => (RanRules(g) /\ SyncResultType(g) = "allow")
                /\ PassedBefore(inv, Len(inv))
                /\ PassedBefore(ainv, Len(ainv))
                /\ (Done(g) /\ ainv # <<>> /\ Last(ainv).outcome.kind = "decision")
                      => call[g].decision = Last(ainv).outcome.decision
                /\ (Done(g) /\ ainv # <<>> /\ Last(ainv).outcome.kind = "throw")
                      => call[g].decision.type = "block"
                /\ (Done(g) /\ ainv = <<>> /\ SyncDecisive(g)
                            /\ Last(inv).outcome.kind = "decision")
                      => call[g].decision = Last(inv).outcome.decision

\* the step part of C14 (amended): once an async rule of a call has been
\* invoked, no synchronous rule is invoked in that call
C14_NoSyncRuleAfterAsync ==
    \A g \in Gates :
        (call[g].asyncInvoked # <<>> /\ call'[g].asyncInvoked # <<>>)
        => call'[g].invoked = call[g].invoked

\* C14 (amended): in evaluateAsync, once a synchronous rule has returned a
\* decision other than allow, or has thrown, no async rule is invoked for
\* that call; after a synchronous allow the async rules are invoked in
\* order.  The first decisive result (a synchronous non-allow verdict, else
\* the first async rule that returns a decision or throws) wins and no rule,
\* sync or async, is invoked with the intent after it.
C14_FirstDecisiveWins ==
    []C14_FirstDecisiveInv /\ [][C14_NoSyncRuleAfterAsync]_vars

C14_Witness ==
    \E g \in Gates :
        /\ Async(g) /\ Done(g) /\ gate[g].numRules = 2
        /\ Len(call[g].invoked) = 1
        /\ call[g].invoked[1].outcome = [kind |-> "decision", decision |-> allow]
        /\ Len(call[g].asyncInvoked) = 2
        /\ Last(call[g].asyncInvoked).outcome.kind = "decision"
        /\ call[g].decision = Last(call[g].asyncInvoked).outcome.decision
        /\ call[g].decision.type = "block"

\* the call of g has left the loop over asyncRules (or never entered it)
PastRules(g) == call[g].pc \in {"log", "return", "done"}

C16_SequentialAsyncChain ==
    \A g \in Gates :
        LET ainv == call[g].asyncInvoked
            n == Len(ainv)
            pending == {k \in 1..n : ainv[k].outcome = Pending}
        IN  /\ n <= call[g].asyncN
            /\ \A k \in 1..n : ainv[k].rule = k
            /\ PassedBefore(ainv, n)
            /\ Cardinality(pending) <= 1
            /\ pending # {} <=> call[g].pc = "await"
            /\ (PastRules(g) /\ n > 0 /\ ainv[n].outcome.kind = "decision")
                  => /\ call[g].decision = ainv[n].outcome.decision
                     /\ (Done(g) /\ ~gate[g].dryRun)
                           => call[g].result = ainv[n].outcome.decision

C16_Witness ==
    \E g \in Gates :
        /\ call[g].pc = "await" /\ call[g].asyncN = 2
        /\ Len(call[g].asyncInvoked) = 2
        /\ call[g].asyncInvoked[1].outcome.kind = "null"
        /\ call[g].asyncInvoked[2].outcome = Pending

\* C17: in evaluateAsync, when the synchronous result is allow, asyncRules
\* is not empty and every async rule resolves to null, the decision computed
\* and logged is the gate's default decision, not the synchronous allow.
C17_AsyncFallThrough ==
    \A g \in Gates :
        (/\ Async(g) /\ PastRules(g)
         /\ SyncResultType(g) = "allow"
         /\ call[g].asyncN > 0
         /\ Len(call[g].asyncInvoked) = call[g].asyncN
         /\ \A k \in 1..Len(call[g].asyncInvoked) :
               call[g].asyncInvoked[k].outcome.kind = "null")
        => /\ call[g].decision = gate[g].defaultDecision
           /\ (Done(g) /\ gate[g].hasLogger) => Logged(g, gate[g].defaultDecision)
           /\ (Done(g) /\ ~gate[g].dryRun) => call[g].result = gate[g].defaultDecision

C17_Witness ==
    \E g \in Gates :
        /\ Async(g) /\ Done(g) /\ gate[g].hasLogger /\ ~gate[g].dryRun
        /\ SyncDecisive(g) /\ SyncResultType(g) = "allow"
        /\ Len(call[g].asyncInvoked) = 2
        /\ \A k \in 1..2 : call[g].asyncInvoked[k].outcome.kind = "null"
        /\ gate[g].defaultDecision.type = "block"
        /\ call[g].result = gate[g].defaultDecision
        /\ Logged(g, gate[g].defaultDecision)

----------------------------------------------------------------------------
(* Properties of two rateLimit rules (SpecPair)                            *)

\* the state part of C11
C11_SameVerdictsInv ==
    limiter.perAgent =>
        /\ pairLast.blocked = pairLast.twinBlocked
        /\ StoredFor(windows, observed) = StoredFor(twinWindows, observed)

\* the step part of C11: a call by another agent leaves what is stored for
\* the observed agent as it was
C11_OtherCallsFrame ==
    (limiter.perAgent /\ lastCall' # lastCall)
        => /\ StoredFor(windows', observed) = StoredFor(windows, observed)
           /\ StoredFor(twinWindows', observed) = StoredFor(twinWindows, observed)

\* C11: with perAgent = true, two runs of a rateLimit rule that agree on the
\* times of agent B's calls and differ only in the calls of other agents give
\* B the same verdicts, and a call by another agent never changes the
\* timestamp sequence stored for B.
C11_PerAgentIsolation ==
    []C11_SameVerdictsInv /\ [][C11_OtherCallsFrame]_vars

\* B is blocked in both runs although only the first run saw calls of
\* another agent, one of them blocked
C11_Witness ==
    /\ limiter.perAgent /\ limiter.maxCalls = 1
    /\ pairLast.calls = 2 /\ pairLast.blocked /\ pairLast.twinBlocked
    /\ lastCall.before = 2 /\ lastCall.blocked
    /\ DOMAIN twinWindows = {observed}
    /\ DOMAIN windows = Agents

----------------------------------------------------------------------------
(* Properties of AuditLogger (SpecAudit)                                   *)

\* the log call c has finished (returned or thrown) and its write, if it
\* returned a Promise, has settled
Settled(c) == c.pc = "done" /\ c.promise # "pending"

\* the adapter's write in call c threw synchronously or rejected
WriteFailed(c) == c.written # <<>> /\ c.thrown # NoError

\* onError received e for the thrown value err: err itself when it is an
\* Error, otherwise an Error carrying String(err)
ReceivedAs(e, err) ==
    /\ e.isError
    /\ e.message = err.message
    /\ err.isError => e = err

\* C18: when the adapter's write throws synchronously or returns a promise
\* that rejects, AuditLogger.log does not throw to its caller, and the
\* configured onError is invoked exactly once with that error; with no
\* onError configured the error is dropped.
C18_WriteFailuresContained ==
    \A k \in 1..Len(auditCalls) :
        LET c == auditCalls[k]
        IN  (Settled(c) /\ WriteFailed(c)) =>
              /\ c.result = "returned"
              /\ IF audit.hasOnError
                 THEN /\ Len(c.onErrorSeen) = 1
                      /\ ReceivedAs(c.onErrorSeen[1], c.thrown)
                 ELSE c.onErrorSeen = <<>>

\* the part of C18 that does not depend on what onError does: onError is
\* invoked exactly once with the error of a failed write, never otherwise
OnErrorOncePerFailure ==
    \A k \in 1..Len(auditCalls) :
        LET c == auditCalls[k]
        IN  Settled(c) =>
              IF audit.hasOnError /\ WriteFailed(c)
              THEN /\ Len(c.onErrorSeen) = 1
                   /\ ReceivedAs(c.onErrorSeen[1], c.thrown)
              ELSE c.onErrorSeen = <<>>

\* the tee of call c was invoked exactly once, with the raw entry, before
\* the write; its exception did not reach onError and did not stop the write
TeeOrderedBeforeWrite(c) ==
    /\ c.teeSeen = <<c.entry>>
    /\ Len(c.trace) >= 2 /\ c.trace[1] = "tee" /\ c.trace[2] = "write"
    /\ Len(c.written) = 1
    /\ \A f \in DOMAIN c.entry : c.written[1][f] = c.entry[f]
    /\ c.onErrorSeen # <<>> => WriteFailed(c)

\* the part of C19 about the tee alone
TeeBestEffort ==
    \A k \in 1..Len(auditCalls) :
        LET c == auditCalls[k]
        IN  (audit.hasTee /\ c.pc = "done") => TeeOrderedBeforeWrite(c)

\* C19: in every AuditLogger.log call with a tee configured the tee is
\* invoked exactly once with the raw entry before the adapter's write; if the
\* tee throws, the exception is discarded (onError is not called for it), the
\* write is still invoked for that entry, and log does not throw.
C19_TeeBestEffortAndLogReturns ==
    \A k \in 1..Len(auditCalls) :
        LET c == auditCalls[k]
        IN  (audit.hasTee /\ c.pc = "done") =>
              /\ TeeOrderedBeforeWrite(c)
              /\ c.teeThrew => c.result = "returned"

\* the calls whose stored entry was handed to the adapter
Written == {k \in 1..Len(auditCalls) : auditCalls[k].written # <<>>}

\* C20: the stored entries written to the adapter have pairwise distinct
\* ids, each assigned by the logger at write time (the logged entry carries
\* no id), and each stored entry equals the logged entry plus the id.
C20_UniqueIds ==
    /\ \A k \in Written :
          LET c == auditCalls[k]
              s == c.written[1]
          IN  /\ Len(c.written) = 1
              /\ "id" \notin DOMAIN c.entry
              /\ DOMAIN s = DOMAIN c.entry \cup {"id"}
              /\ \A f \in DOMAIN c.entry : s[f] = c.entry[f]
              /\ s.id \in issued
    /\ \A j, k \in Written :
          j # k => auditCalls[j].written[1].id # auditCalls[k].written[1].id

\* the same entry was logged twice and written twice
C20_Witness ==
    /\ Written = {1, 2}
    /\ auditCalls[1].entry = auditCalls[2].entry
    /\ auditCalls[1].written[1] # auditCalls[2].written[1]

----------------------------------------------------------------------------
(* Properties of the storage adapters (SpecStore, SpecCrash)               *)

\* the elements of a sequence
Range(seq) == {seq[i] : i \in 1..Len(seq)}

\* the entry of the latest write
LastWritten == storeLog.writes[Len(storeLog.writes)]

\* the latest read is a call of kind with this filter
Read(kind, filter) == lastRead.kind = kind /\ lastRead.filter = filter

Min(a, b) == IF a < b THEN a ELSE b

\* C23: for an InMemoryAdapter with capacity maxEntries, after n writes and
\* no clear the stored entries are exactly the last min(n, maxEntries) entries
\* written, in write order; the number of stored entries never exceeds
\* maxEntries.
C23_FifoEviction ==
    /\ Len(mem.entries) <= mem.maxEntries
    /\ ~storeLog.cleared =>
          LET n == Len(storeLog.writes)
              kept == Min(n, mem.maxEntries)
          IN  /\ Len(mem.entries) = kept
              /\ \A i \in 1..kept : mem.entries[i] = storeLog.writes[n - kept + i]

\* three writes at capacity two: the first entry is gone, the others stay
C23_Witness ==
    /\ ~storeLog.cleared
    /\ Len(storeLog.writes) = 3
    /\ mem.maxEntries = 2
    /\ mem.entries = <<storeLog.writes[2], storeLog.writes[3]>>

\* C26: a FileAdapter write that finds the current file larger than the
\* threshold renames it with a numeric suffix and appends the new entry to a
\* fresh file; after the write the current file, and so query and count,
\* holds exactly the entries written since the most recent rotation, the
\* entry just written included.
C26_FileRotation ==
    storeLog.writes # <<>> =>
        /\ (storeLog.last.before.exists
              /\ storeLog.last.sizeBefore > file.maxSizeBytes) =>
                /\ file.rotated = storeLog.last.before
                /\ file.current.content = <<JsonStringify(LastWritten), Newline>>
        /\ readAll(file) = storeLog.sinceRotation
        /\ storeLog.sinceRotation[Len(storeLog.sinceRotation)] = LastWritten
        /\ Read("query", NoFilter) => lastRead.file = storeLog.sinceRotation
        /\ Read("count", NoFilter) => lastRead.file = Len(storeLog.sinceRotation)

\* the write found a file of two entries above the threshold: they are in
\* the renamed file, and query returns the new entry alone
C26_Witness ==
    /\ storeLog.writes # <<>>
    /\ storeLog.last.sizeBefore > file.maxSizeBytes
    /\ Len(readAll([file EXCEPT !.current = storeLog.last.before])) = 2
    /\ file.rotated = storeLog.last.before
    /\ Read("query", NoFilter)
    /\ lastRead.file = <<LastWritten>>

\* C27: if an append is cut short by a crash, leaving a partial final line,
\* later reads skip the malformed line and still return every entry whose
\* write completed, those written before the partial line and those written
\* by write calls that return after it.
C27_CrashTolerance ==
    Read("query", NoFilter) => Range(storeLog.sinceRotation) \subseteq Range(lastRead.file)

----------------------------------------------------------------------------
(* Properties of query and count (SpecQuery)                               *)

\* entry e satisfies every filter field that is given
Satisfies(e, filter) ==
    /\ Has(filter, "agentId") => e.agentId = filter.agentId
    /\ Has(filter, "tool") => e.tool = filter.tool
    /\ Has(filter, "decisionType") => e.decision.type = filter.decisionType
    /\ Has(filter, "from") => filter.from <= e.timestamp
    /\ Has(filter, "to") => e.timestamp <= filter.to

\* the positions (from 0) of the stored entries that satisfy the filter
MatchingPositions(filter) ==
    {i \in 0..(Len(storeLog.writes) - 1) : Satisfies(storeLog.writes[i + 1], filter)}

Max(a, b) == IF a > b THEN a ELSE b

\* the position range [offset, offset + limit) a filter asks for
PageStart(filter) == IF Has(filter, "offset") THEN filter.offset ELSE 0

PageEnd(filter) == PageStart(filter) + (IF Has(filter, "limit") THEN filter.limit ELSE 100)

\* the matching entries in write order
RECURSIVE MatchingFrom(_, _)
MatchingFrom(i, filter) ==
    IF i > Len(storeLog.writes) THEN <<>>
    ELSE (IF Satisfies(storeLog.writes[i], filter) THEN <<storeLog.writes[i]>> ELSE <<>>)
         \o MatchingFrom(i + 1, filter)

\* result is the part of the matching entries at positions [start, end)
IsPage(result, matching, start, end) ==
    /\ Len(result) = Min(end - start, Max(0, Len(matching) - start))
    /\ \A k \in 1..Len(result) : result[k] = matching[start + k]

\* the filters that select the same entries as f and ask for any page
PagesOf(f) ==
    {[field \in DOMAIN f \cup {"limit", "offset"} |->
         IF field = "limit" THEN l ELSE IF field = "offset" THEN o ELSE f[field]] :
       l \in 0..MaxPage, o \in 0..MaxPage}

\* two filters ask for disjoint position ranges
DisjointPages(f, g) == PageEnd(f) <= PageStart(g) \/ PageEnd(g) <= PageStart(f)

\* C25: for the in-memory and file adapters query(filter) returns the
\* matching entries in write order restricted to positions
\* [offset, offset + limit), limit defaulting to 100 and offset to 0; its
\* length is min(limit, max(0, count(filter) - offset)), and pages with
\* disjoint position ranges share no entry.
C25_Pagination ==
    lastRead.kind = "query" =>
        LET f == lastRead.filter
            matching == MatchingFrom(1, f)
        IN  /\ IsPage(lastRead.mem, matching, PageStart(f), PageEnd(f))
            /\ lastRead.file = lastRead.mem
            /\ Len(lastRead.mem) =
                  Min(PageEnd(f) - PageStart(f),
                      Max(0, InMemoryCount(mem, f) - PageStart(f)))
            /\ \A g \in PagesOf(f) :
                  DisjointPages(f, g) =>
                     /\ Range(InMemoryQuery(mem, g)) \cap Range(lastRead.mem) = {}
                     /\ Range(FileQuery(file, g)) \cap Range(lastRead.file) = {}

\* the second page of size one of two stored entries holds the second entry
C25_Witness ==
    /\ Len(storeLog.writes) = 2
    /\ Read("query", [limit |-> 1, offset |-> 1])
    /\ lastRead.mem = <<storeLog.writes[2]>>
    /\ lastRead.file = <<storeLog.writes[2]>>
    /\ InMemoryQuery(mem, [limit |-> 1, offset |-> 0]) = <<storeLog.writes[1]>>

----------------------------------------------------------------------------
(* Properties of the audited gate (SpecE2E)                                *)

\* the adapter holds one entry per evaluate call, in call order, and the
\* entries whose decision is block are those for intents with tool exec
AuditTrail ==
    /\ Len(mem.entries) = Len(e2e.calls)
    /\ \A i \in 1..Len(mem.entries) :
          LET e == mem.entries[i]
              intent == e2e.calls[i].intent
          IN  /\ e.agentId = intent.agentId
              /\ e.tool = intent.tool
              /\ e.target = intent.target
              /\ e.decision.type = "block" <=> intent.tool = "exec"

\* the adapter is below capacity
BelowCapacity == Len(e2e.calls) <= mem.maxEntries

\* C22 as stated: for a gate with rules [blockExec, allowAll] or [blockExec]
\* whose logger is an AuditLogger over an in-memory adapter below capacity,
\* after n evaluate calls the adapter holds exactly n entries, one per call
\* in call order, and the entries whose decision is block are exactly those
\* for intents with tool exec.
C22_AuditTrail_AnyDefault == BelowCapacity => AuditTrail

\* C22: the same for rules [blockExec, allowAll], and for rules [blockExec]
\* when the gate's default decision is not block.
C22_AuditTrail ==
    (BelowCapacity
       /\ (e2e.rules = <<"blockExec">> => defaultDecisionOf(e2e).type # "block")) =>
          AuditTrail

\* an http intent and an exec intent were evaluated by a dry-run gate with
\* rules [blockExec]: two entries, the second one tagged block
C22_Witness ==
    /\ e2e.rules = <<"blockExec">>
    /\ e2e.dryRun
    /\ Len(e2e.calls) = 2
    /\ e2e.calls[1].intent.tool = "http" /\ e2e.calls[2].intent.tool = "exec"
    /\ Len(mem.entries) = 2
    /\ mem.entries[1].decision.type = "require-approval"
    /\ mem.entries[2].decision.type = "block"
    /\ e2e.calls[2].returned = allow

----------------------------------------------------------------------------
(* Properties of createIntent (SpecIntent)                                 *)

\* the string is empty or holds whitespace only
Blank(str) == \A i \in 1..Len(str) : str[i] \in Whitespace

\* out is str without the whitespace around it, and is not empty
TrimmedOf(out, str) ==
    /\ out # <<>>
    /\ out[1] \notin Whitespace /\ out[Len(out)] \notin Whitespace
    /\ \E i, j \in 1..Len(str) :
          /\ out = SubSeq(str, i, j)
          /\ \A k \in 1..Len(str) : (k < i \/ k > j) => str[k] \in Whitespace

\* the error message names the field
Names(result, field) == \E k \in 1..Len(result.message) : result.message[k] = field

\* C28: createIntent either throws a validation error naming the offending
\* field (agentId checked before target) when agentId or target is empty or
\* whitespace-only, or returns an intent whose agentId and target are the
\* trimmed, non-empty inputs; no intent with an empty or whitespace-only
\* agentId or target is ever returned.
C28_IntentValidation ==
    intentCall.kind = "called" =>
        LET r == intentCall.result
        IN  IF Blank(intentCall.agentId)
            THEN r.kind = "threw" /\ Names(r, "agentId") /\ ~Names(r, "target")
            ELSE IF Blank(intentCall.target)
            THEN r.kind = "threw" /\ Names(r, "target") /\ ~Names(r, "agentId")
            ELSE /\ r.kind = "returned"
                 /\ TrimmedOf(r.intent.agentId, intentCall.agentId)
                 /\ TrimmedOf(r.intent.target, intentCall.target)
                 /\ r.intent.tool = intentCall.tool
                 /\ ~Blank(r.intent.agentId) /\ ~Blank(r.intent.target)

\* whitespace around both inputs is removed
C28_Witness ==
    /\ intentCall.kind = "called"
    /\ intentCall.agentId = <<" ", "a", "\t">>
    /\ intentCall.target = <<"\t", "a", " ">>
    /\ intentCall.result.kind = "returned"
    /\ intentCall.result.intent.agentId = <<"a">>
    /\ intentCall.result.intent.target = <<"a">>

----------------------------------------------------------------------------
(* Properties of construction (SpecCtor)                                   *)

\* C29: rateLimit with maxCalls <= 0 or windowMs <= 0 throws when the rule is
\* created, and constructing a Gate whose rules argument is not a list
\* throws; a rule or gate that was successfully constructed never fails
\* during evaluation because of these parameters.
C29_ConfigErrorsAtConstruction ==
    /\ ctor.kind = "rateLimit" =>
          (ctor.result.kind = "threw"
              <=> (ctor.args.maxCalls <= 0 \/ ctor.args.windowMs <= 0))
    /\ ctor.kind = "Gate" => (ctor.result.kind = "threw" <=> ~ctor.args.isArray)
    /\ ctor.kind # "none" =>
          /\ ctor.result.kind = "threw" => ctor.calls = 0
          /\ ~ctor.failed

\* a rule with valid options was created and used up to a block
C29_Witness ==
    /\ ctor.kind = "rateLimit"
    /\ ctor.result.kind = "rule"
    /\ ctor.calls = 3
    /\ ctor.blocked
    /\ ~ctor.failed

\* rateLimit threw on maxCalls = 0
C29_WitnessThrow ==
    /\ ctor.kind = "rateLimit"
    /\ ctor.args.maxCalls = 0
    /\ ctor.result.kind = "threw"

----------------------------------------------------------------------------
(* Properties of the retry-after value (SpecRetry)                         *)

\* s is the number x rounded up to whole thousands: the least integer s
\* with 1000 * s >= x
RoundedUpToSeconds(s, x) == 1000 * s >= x /\ 1000 * (s - 1) < x

\* the first timestamp left in the key's sequence after the pruning of the
\* latest call; with a non-decreasing clock it is the smallest one
Oldest == lastCall.pruned[1]

\* C30: whenever rateLimit blocks a call at time T, the reported wait is
\* ceil((windowMs - (T - oldest)) / 1000) seconds, oldest being the earliest
\* timestamp remaining in the key's pruned sequence; with a non-decreasing
\* clock the wait is at least 1 and at most ceil(windowMs / 1000), and a call
\* made after the wait has elapsed does not count that oldest entry.
C30_RetryAfter ==
    lastCall.blocked =>
        /\ RoundedUpToSeconds(lastCall.retryAfterS,
                              limiter.windowMs - (lastCall.now - Oldest))
        /\ lastCall.clockOrdered =>
              /\ \A i \in 1..Len(lastCall.pruned) : Oldest <= lastCall.pruned[i]
              /\ lastCall.retryAfterS >= 1
              /\ \E top \in 1..(limiter.windowMs + 1) :
                    /\ RoundedUpToSeconds(top, limiter.windowMs)
                    /\ lastCall.retryAfterS <= top
              /\ \A later \in {0, 1, 999, 1000} :
                    ~InWindow(Oldest, lastCall.now + 1000 * lastCall.retryAfterS + later,
                              limiter.windowMs)

\* a call blocked one millisecond after the oldest admitted call of a window
\* of 2001 ms is told to wait two seconds
C30_Witness ==
    /\ lastCall.blocked
    /\ lastCall.clockOrdered
    /\ limiter.windowMs = 2001
    /\ lastCall.now - Oldest = 1
    /\ lastCall.retryAfterMs = 2000
    /\ lastCall.retryAfterS = 2

----------------------------------------------------------------------------
(* Properties of the limiter's Map (SpecRL)                                *)

\* a rule with options opts and Map w would let a call of key pass at time t
AdmitsAt(opts, w, key, t) ==
    ~Exceeded(Pruned(w, key, t, opts.windowMs), opts.maxCalls)

\* C31: an invocation that returns block appends no timestamp and leaves the
\* stored sequence of every key unchanged, so it does not change the times
\* at which the key is admitted again; an invocation that passes through
\* appends exactly its own timestamp to the pruned sequence of its key and
\* leaves the other keys alone.
C31_BlockedNotCounted ==
    [][ /\ lastCall'.blocked =>
              /\ windows' = windows
              /\ \A t \in 0..MaxTime :
                    AdmitsAt(limiter, windows', lastCall'.key, t)
                        <=> AdmitsAt(limiter, windows, lastCall'.key, t)
        /\ ~lastCall'.blocked =>
              /\ windows'[lastCall'.key] = Append(lastCall'.pruned, lastCall'.now)
              /\ \A k \in DOMAIN windows' \ {lastCall'.key} :
                    k \in DOMAIN windows /\ windows'[k] = windows[k]
      ]_vars

\* the latest of at least two blocked calls in a row on a key that is
\* admitted again one millisecond later
C31_Witness ==
    /\ Invoked /\ lastCall.blocked /\ lastCall.clockOrdered
    /\ lastCall.before >= limiter.maxCalls + 2
    /\ Len(lastCall.admittedBefore) = limiter.maxCalls
    /\ lastCall.now < MaxTime
    /\ AdmitsAt(limiter, windows, lastCall.key, lastCall.now + 1)

\* C33: immediately after an invocation at time T for key k, blocked or
\* passed through, every timestamp t stored for k satisfies T - t < windowMs.
C33_StoredTimestampsLive ==
    Invoked =>
        \A i \in 1..Len(StoredFor(windows, lastCall.key)) :
            lastCall.now - windows[lastCall.key][i] < limiter.windowMs

\* a passing call that pruned an expired timestamp of its key
C33_Witness ==
    /\ Invoked /\ ~lastCall.blocked /\ lastCall.clockOrdered
    /\ \E i \in 1..Len(lastCall.admittedBefore) :
          /\ lastCall.admittedBefore[i].key = lastCall.key
          /\ lastCall.now - lastCall.admittedBefore[i].t >= limiter.windowMs
    /\ Len(windows[lastCall.key]) = 1

\* C34: a key that has been admitted stays in the Map in every later state,
\* even after all of its timestamps have expired; the set of keys only grows.
C34_KeysNeverEvicted ==
    [][ /\ DOMAIN windows \subseteq DOMAIN windows'
        /\ \A i \in 1..Len(admitted') : admitted'[i].key \in DOMAIN windows'
      ]_vars

\* a call of one agent after every timestamp of another agent's key expired
C34_Witness ==
    /\ Invoked /\ limiter.perAgent /\ lastCall.clockOrdered
    /\ \E k \in DOMAIN windows :
          /\ k # lastCall.key
          /\ \A i \in 1..Len(windows[k]) :
                lastCall.now - windows[k][i] >= limiter.windowMs

----------------------------------------------------------------------------
(* Properties of evaluate beside evaluateAsync (SpecEq)                    *)

\* the fields of the log entries that do not depend on the clock
SameEntries(g, h) ==
    /\ Len(call[g].entries) = Len(call[h].entries)
    /\ \A k \in 1..Len(call[g].entries) :
          /\ call[g].entries[k].decision = call[h].entries[k].decision
          /\ call[g].entries[k].level = call[h].entries[k].level
          /\ call[g].entries[k].dryRun = call[h].entries[k].dryRun

\* C35: for the same gate configuration, intent and rule outcomes,
\* evaluateAsync(intent, []) resolves to the decision evaluate(intent)
\* returns, has invoked the same synchronous rules in the same order and no
\* async rule, and has emitted one log entry (on a gate with a logger) with
\* the same decision, level and dryRun flag.
C35_NoAsyncRulesIsEvaluate ==
    (/\ Done(SyncGate) /\ Done(AsyncGate)
     /\ call[SyncGate].kind = "evaluate"
     /\ call[AsyncGate].kind = "evaluateAsync" /\ call[AsyncGate].asyncN = 0)
        => /\ call[AsyncGate].result = call[SyncGate].result
           /\ call[AsyncGate].invoked = call[SyncGate].invoked
           /\ call[AsyncGate].asyncInvoked = <<>>
           /\ SameEntries(SyncGate, AsyncGate)
           /\ Len(call[AsyncGate].entries) = (IF gate[AsyncGate].hasLogger THEN 1 ELSE 0)

\* both calls are over, the synchronous chain allowed after a pass-through,
\* the default is not allow and the one log entry was emitted
C35_Witness ==
    /\ Done(SyncGate) /\ Done(AsyncGate)
    /\ call[SyncGate].kind = "evaluate"
    /\ call[AsyncGate].kind = "evaluateAsync" /\ call[AsyncGate].asyncN = 0
    /\ gate[AsyncGate].hasLogger /\ ~gate[AsyncGate].dryRun
    /\ gate[AsyncGate].defaultDecision.type = "block"
    /\ Len(call[AsyncGate].invoked) = 2
    /\ call[AsyncGate].result = allow
    /\ Len(call[AsyncGate].entries) = 1

----------------------------------------------------------------------------
(* No permissive outcome without an explicit allow (Spec)                  *)

\* the chain inv of n rules, with default decision d, ended in allow for a
\* stated cause: its first rule that did not pass through returned allow (so
\* none before it threw), or all n rules passed through and d is allow
AllowExplained(inv, n, d) ==
    \/ /\ Len(inv) >= 1
       /\ PassedBefore(inv, Len(inv))
       /\ inv[Len(inv)].outcome = [kind |-> "decision", decision |-> allow]
    \/ /\ Len(inv) = n
       /\ PassedBefore(inv, n + 1)
       /\ d = allow

\* C36: on a gate that is not in dry-run mode, evaluate returns allow only if
\* the first deciding rule returned allow with no earlier rule throwing, or
\* all rules passed through and the default is allow; evaluateAsync resolves
\* to allow only if the synchronous chain's result was allow in that way and
\* the async rule list is empty, or the first async rule that did not pass
\* through returned allow with none before it throwing, or all async rules
\* passed through and the default decision is allow.
C36_AllowOnlyIfExplicit ==
    \A g \in Gates :
        (Done(g) /\ ~gate[g].dryRun /\ call[g].result = allow)
            => /\ AllowExplained(call[g].invoked, gate[g].numRules,
                                 gate[g].defaultDecision)
               /\ call[g].kind = "evaluateAsync" =>
                     \/ call[g].asyncN = 0 /\ call[g].asyncInvoked = <<>>
                     \/ /\ call[g].asyncN > 0
                        /\ AllowExplained(call[g].asyncInvoked, call[g].asyncN,
                                          gate[g].defaultDecision)

\* an enforcing gate whose default is block resolved evaluateAsync to allow:
\* a synchronous rule allowed and the second async rule allowed after the
\* first passed through
C36_Witness ==
    \E g \in Gates :
        /\ Done(g) /\ ~gate[g].dryRun /\ call[g].result = allow
        /\ call[g].kind = "evaluateAsync"
        /\ gate[g].defaultDecision.type = "block"
        /\ Len(call[g].invoked) >= 1
        /\ Len(call[g].asyncInvoked) = 2
        /\ call[g].asyncInvoked[1].outcome.kind = "null"

----------------------------------------------------------------------------
(* Termination of evaluateAsync (SpecLive)                                 *)

\* an evaluateAsync call of g has been made and has not resolved
Unresolved(g) == call[g].kind = "evaluateAsync" /\ ~Done(g)

\* an async rule invoked for the call of g returned a promise that never
\* settles
Hung(g) ==
    \E k \in 1..Len(call[g].asyncInvoked) : call[g].asyncInvoked[k].outcome = Never

\* C37: an evaluateAsync call none of whose invoked async rules hangs
\* eventually resolves, and a resolved call has emitted its log entry (on a
\* gate with a logger); a call whose invoked async rule never settles never
\* resolves, has emitted no log entry and invokes no later async rule.
C37_AsyncTermination ==
    /\ \A g \in Gates : Unresolved(g) ~> (Done(g) \/ Hung(g))
    /\ [](\A g \in Gates :
            (Done(g) /\ call[g].kind = "evaluateAsync")
                => /\ call[g].result.type \in DecisionTypes
                   /\ Len(call[g].entries) = LoggerInvocations(gate[g]))
    /\ [](\A g \in Gates :
            Hung(g) => /\ ~Done(g)
                       /\ call[g].result = NoDecision
                       /\ call[g].entries = <<>>
                       /\ Last(call[g].asyncInvoked).outcome = Never)
    /\ [][\A g \in Gates : Hung(g) => call'[g] = call[g]]_vars

\* a call with two async rules resolved after both promises settled, on a
\* gate with a logger
C37_Witness ==
    \E g \in Gates :
        /\ Done(g) /\ call[g].kind = "evaluateAsync" /\ gate[g].hasLogger
        /\ Len(call[g].asyncInvoked) = 2
        /\ Len(call[g].entries) = 1

\* a call is stalled on its first async rule although a second one exists
C37_WitnessStalled ==
    \E g \in Stalled :
        /\ Hung(g) /\ call[g].asyncN = 2 /\ call[g].i = 1 /\ gate[g].hasLogger

----------------------------------------------------------------------------
(* Properties of the built-in rules (SpecPayload)                          *)

\* C39: for a gate built only from built-in rules, two runs that receive
\* intents equal in agentId, tool and target at the same times, whatever
\* their payload and metadata, produce the same sequence of decisions, the
\* same log entries and the same rule invocations, and every intent is after
\* its call what it was before.
C39_PayloadIndependence ==
    runs # NoRuns =>
        /\ runs.run[1].decisions = runs.run[2].decisions
        /\ runs.run[1].entries = runs.run[2].entries
        /\ runs.run[1].invoked = runs.run[2].invoked
        /\ runs.run[1].st = runs.run[2].st
        /\ \A r \in Runs : runs.run[r].after = runs.run[r].given

\* two exec intents that differ in payload and metadata were both blocked by
\* blockExec on an enforcing gate, after an earlier call
C39_Witness ==
    /\ runs # NoRuns /\ runs.calls = 2 /\ ~runs.dryRun
    /\ runs.run[1].given.tool = "exec"
    /\ runs.run[1].given.payload # runs.run[2].given.payload
    /\ runs.run[1].given.metadata # runs.run[2].given.metadata
    /\ runs.run[1].invoked = <<"blockExec">>
    /\ runs.run[2].decisions[2].type = "block"

----------------------------------------------------------------------------
(* Rotation keeps one previous generation (SpecStore)                      *)

\* the entries that can be read from the file at path + ".1"
readRotated(f) == readAll([f EXCEPT !.current = f.rotated])

\* the entries written since the rotation before last (all of them when
\* fewer than two rotations took place), in write order
SinceRotationBeforeLast ==
    LET r == storeLog.rotations
        first == IF Len(r) >= 2 THEN r[Len(r) - 1] ELSE 1
    IN  SubSeq(storeLog.writes, first, Len(storeLog.writes))

\* C40: a write that rotates leaves in path + ".1" exactly the contents the
\* current file had just before it, in place of what an earlier rotation
\* stored there; at any time the entries that can be read from path + ".1"
\* and from the current file are those written since the rotation before
\* last, and no others.
C40_SinglePreviousGeneration ==
    storeLog.writes # <<>> =>
        /\ (storeLog.rotations # <<>>
              /\ Last(storeLog.rotations) = Len(storeLog.writes)) =>
                 /\ file.rotated = storeLog.last.before
                 /\ storeLog.last.sizeBefore >= file.maxSizeBytes
        /\ (storeLog.rotations = <<>>) = ~file.rotated.exists
        /\ readRotated(file) \o readAll(file) = SinceRotationBeforeLast

\* the third write rotated for the second time: the entry of the first write
\* can no longer be read from either file
C40_Witness ==
    /\ Len(storeLog.writes) = 3
    /\ storeLog.rotations = <<2, 3>>
    /\ readRotated(file) = <<storeLog.writes[2]>>
    /\ readAll(file) = <<storeLog.writes[3]>>
    /\ storeLog.writes[1] \notin Range(readRotated(file)) \cup Range(readAll(file))

----------------------------------------------------------------------------
(* Properties of concurrent calls (SpecConc)                               *)

\* the calls that passed the rateLimit rule under key at a time t with
\* from <= t < from + windowMs
PassedWithin(key, from) ==
    {j \in 1..Len(conc.passed) :
        /\ conc.passed[j].key = key
        /\ from <= conc.passed[j].t
        /\ conc.passed[j].t < from + conc.options.windowMs}

\* C32: whatever the number of evaluate and evaluateAsync calls on the gate
\* and the way they interleave at the awaits, under a clock that does not go
\* back, the calls of one limiter key that pass the rateLimit rule within any
\* interval [from, from + windowMs) number at most maxCalls; the state of the
\* limiter changes only in the synchronous phase that opens a call, never
\* when a suspended call resumes.
C32_SlidingWindowInterleaved ==
    /\ [](conc # NoConc =>
            \A key \in Agents \cup {GlobalKey}, from \in 0..MaxTime :
                Cardinality(PassedWithin(key, from)) <= conc.options.maxCalls)
    /\ [][(conc # NoConc /\ (conc.st' # conc.st \/ conc.passed' # conc.passed))
            => Len(conc.calls') = Len(conc.calls) + 1]_vars

\* a call was blocked by the limiter while the call admitted before it was
\* suspended at an await
C32_Witness ==
    /\ conc # NoConc /\ Len(conc.calls) = 2
    /\ conc.calls[1].pc = "await"
    /\ Len(conc.passed) = 1 /\ conc.passed[1].call = 1
    /\ conc.calls[2].decision = RateLimited

\* the decision the recorded outcomes of the rules invoked for c determine
DeterminedBy(g, c) ==
    LET a == c.asyncInvoked
        n == Len(a)
    IN  IF c.kind = "evaluate" \/ c.syncDecision.type # "allow" \/ c.asyncN = 0
        THEN c.syncDecision
        ELSE IF n > 0 /\ a[n].outcome.kind = "decision" THEN a[n].outcome.decision
        ELSE IF n > 0 /\ a[n].outcome.kind = "throw"
             THEN block(<<"Async rule threw: ",
                          IF a[n].outcome.isError THEN a[n].outcome.message
                          ELSE "Async rule error">>)
        ELSE g.defaultDecision

\* the log entries emitted for call number k
EntriesOf(k) == {j \in 1..Len(conc.log) : conc.log[j].call = k}

\* C38: on a gate whose evaluateAsync calls interleave at their awaits, a
\* call that has resolved has the decision that its own intent and the
\* outcomes of the rules invoked for it determine, and its one log entry
\* carries its own intent's agentId, tool and target and that decision.  A
\* call is unresolved only while the promise of its own async rule is
\* pending: an evaluate call, and an evaluateAsync call that reaches no
\* await, is over when it is made, whatever calls are suspended, and a
\* suspended call has emitted no log entry and can resume as soon as its
\* promise settles, whatever the other calls wait for.
C38_IndependentCalls ==
    conc # NoConc =>
        \A k \in 1..Len(conc.calls) :
            LET c == conc.calls[k]
            IN  /\ c.pc \in {"await", "done"}
                /\ c.pc = "done" =>
                      /\ c.decision = DeterminedBy([defaultDecision |->
                                                      defaultDecisionOf(conc)], c)
                      /\ c.result = (IF conc.dryRun THEN allow ELSE c.decision)
                      /\ Cardinality(EntriesOf(k)) = 1
                      /\ \A j \in EntriesOf(k) :
                            /\ conc.log[j].entry.agentId = c.intent.agentId
                            /\ conc.log[j].entry.tool = c.intent.tool
                            /\ conc.log[j].entry.target = c.intent.target
                            /\ conc.log[j].entry.decision = c.decision
                /\ c.pc = "await" =>
                      /\ c.kind = "evaluateAsync" /\ c.syncDecision = allow
                      /\ c.i <= c.asyncN /\ Len(c.asyncInvoked) = c.i
                      /\ Last(c.asyncInvoked).outcome = Pending
                      /\ EntriesOf(k) = {}
                      /\ c.result = NoDecision
                      /\ ENABLED concSettle(k, [kind |-> "null"])

\* the first call is still suspended at its await; the second, made after
\* it with another intent, has resolved through its two async rules
C38_Witness ==
    /\ conc # NoConc /\ Len(conc.calls) = 2
    /\ conc.calls[1].pc = "await"
    /\ conc.calls[2].pc = "done" /\ conc.calls[2].kind = "evaluateAsync"
    /\ conc.calls[2].intent # conc.calls[1].intent
    /\ Len(conc.calls[2].asyncInvoked) = 2
    /\ Len(conc.log) = 1 /\ conc.log[1].call = 2

====
